---- MODULE Spec2Model ----
(***************************************************************************)
(* SwarmOps orchestration core.  The module models four parts of the       *)
(* dashboard server as state machines:                                     *)
(*   - the pipeline runner (sequential steps, retries, skip-and-escalate); *)
(*   - the project dispatcher (orchestrate endpoint, task registry);       *)
(*   - the work ledger (JSONL records and the in-memory cache);            *)
(*   - the phase review flow (review-result webhook, merge to main).       *)
(* Each part has its own next-state relation and specification; the other  *)
(* parts' variables stay unchanged in it.                                  *)
(***************************************************************************)
EXTENDS Integers, Sequences, FiniteSets, TLC

(***************************************************************************)
(* Part 1: pipeline runner (pipeline-runner.ts) and retry handler          *)
(***************************************************************************)

\* Steps of the modelled pipeline; sorted step orders are 1..NumSteps.
NumSteps == 2
\* Cap on spawnStep calls of one run.
MaxSpawns == 5
\* Cap on worker-complete webhook deliveries of one run.
MaxDeliveries == 4

\* DEFAULT_RETRY_POLICY.maxAttempts
DefaultMaxAttempts == 3

VARIABLES
    activeRuns,     \* the run's entry in the activeRuns map, or NoRun
    runFile,        \* the run's persisted state file, or NoRun
    sessionToRun,   \* session keys mapped to the run
    retryStates,    \* retry state per step order of the run
    retryTimers,    \* number of pending setTimeout retry callbacks per step order
    spawns,         \* one entry per spawnStep call: the step and the session's
                    \* fate (spawnFailed, live, or the status it reported)
    delivered,      \* webhook payloads <<stepOrder, status>> delivered so far
    deliveries,     \* number of webhook deliveries so far
    escalations,    \* escalation store entries created for the run
    stepResponse    \* the last worker-complete webhook: its stepOrder and how
                    \* onStepCompleteByRun answered it

pipeVars == <<activeRuns, runFile, sessionToRun, retryStates, retryTimers,
              spawns, delivered, deliveries, escalations, stepResponse>>

VARIABLES
    progressDone,       \* tasks checked off in progress.md
    registry,           \* task registry: status per task of the project
    activeProjectRuns,  \* run id held by the activeProjectRuns map, 0 if none
    projectRunFile,     \* run id in the project's run state file, 0 if none
    projectRuns,        \* the run objects created so far
    handlers,           \* state of each dispatcher invocation in flight
    phaseStates,        \* phase collector: phases initialised per run
    taskRetryStates,    \* retry states keyed by (runId, task step order)
    pendingRetries,     \* pending retry timers keyed by (runId, taskId)
    workers,            \* live worker agents per task
    phaseMerged,        \* phases whose phase branch was merged into main
    taskEscalations,    \* escalations created by the dispatcher
    requests,           \* dispatcher invocations so far
    spawnFailures       \* failed worker spawns so far

projVars == <<progressDone, registry, activeProjectRuns, projectRunFile,
              projectRuns, handlers, phaseStates, taskRetryStates,
              pendingRetries, workers, phaseMerged, taskEscalations,
              requests, spawnFailures>>

\* Cap on work items of the ledger.
MaxItems == 2
\* Cap on the ledger's clock readings.
MaxClock == 3
\* Cap on ledger records.
MaxRecords == 5

VARIABLES
    cache,          \* WorkStorage cache: work item per id
    ledgerFile,     \* the persisted JSONL records, in append order
    clock           \* the last reading of timestamp()

ledgerVars == <<cache, ledgerFile, clock>>

\* Cap on reviewer sessions spawned for the phase under review.
MaxReviewerSessions == 5
\* createFixCycle's maxFixAttempts
MaxFixAttempts == 3
\* Cap on handleFixRequest and handleFixComplete calls in flight at once.
MaxFixCalls == 2
\* Cap on repeated deliveries of review-result payloads.
MaxReviewDeliveries == 1

VARIABLES
    phaseBranch,        \* phaseState.phaseBranch is set
    reviewerSessions,   \* reviewer sessions spawned: chain position, live or reported
    chainIndex,         \* chain position of the current reviewer, 0 before the chain
    chainApprovals,     \* chain positions whose approved result was handled
    mainMerges,         \* merges of the phase branch into the base branch
    fixCycle,           \* the fix cycle of the phase
    fixerSessions,      \* fixer sessions that have not reported
    reviewEscalations,  \* escalations created by the review flow
    phaseStatus,        \* phaseState.status
    lastMerge,          \* outcome of the last mergeToMain: none, merged, conflict
    phaseAdvances,      \* calls of advanceToNextPhase
    simpleFixers,       \* fixers woken by spawnSimpleFixer, outside the fix cycle
    fixCalls,           \* handleFixRequest / handleFixComplete calls in flight
    reviewResponse,     \* status of the last review-result response
    reviewDeliveries    \* repeated deliveries of review-result payloads

reviewVars == <<phaseBranch, reviewerSessions, chainIndex, chainApprovals,
                mainMerges, fixCycle, fixerSessions, reviewEscalations,
                phaseStatus, lastMerge, phaseAdvances, simpleFixers, fixCalls,
                reviewResponse, reviewDeliveries>>

\* Concurrent read-modify-write operations on a JSON state file.
NumWriters == 3

VARIABLES
    escalationsFile,    \* escalations.json: ids of the escalations stored
    retryStateFile,     \* retry-state.json: retry state (its writer) per step order
    escWriters,         \* createEscalation calls: position and the array read
    retryWriters        \* persistRetryState calls: position, step order, array read

fileVars == <<escalationsFile, retryStateFile, escWriters, retryWriters>>

\* Workers of the phase tracked by the phase collector.
NumPhaseWorkers == 2
\* Cap on onWorkerComplete calls.
MaxCollectorCalls == 4
\* Cap on process restarts.
MaxRestarts == 1

VARIABLES
    phaseObjects,       \* PhaseState objects allocated: status per worker
    activePhases,       \* the phase's entry in the activePhases map: object index, 0 if none
    phaseStateFile,     \* the phase's state file: status per worker, or NoPhaseFile
    collectorCalls,     \* onWorkerComplete calls in flight
    lastReturn,         \* what the last onWorkerComplete call returned
    phaseCompleteReturned,  \* some call has returned phaseComplete = true
    collectorCallCount, \* onWorkerComplete calls so far
    restarts            \* process restarts so far

collectVars == <<phaseObjects, activePhases, phaseStateFile, collectorCalls,
                 lastReturn, phaseCompleteReturned, collectorCallCount, restarts>>

\* Cap on the completion reports of one application order.
MaxReports == 3

VARIABLES
    orderA,         \* the completion reports, in a first order
    orderB,         \* the same reports, in a second order
    appliedA,       \* reports of orderA applied so far
    appliedB,       \* reports of orderB applied so far
    workersA,       \* worker statuses under orderA
    workersB,       \* worker statuses under orderB
    resultA,        \* result of the last onWorkerComplete under orderA
    resultB         \* result of the last onWorkerComplete under orderB

orderVars == <<orderA, orderB, appliedA, appliedB, workersA, workersB,
               resultA, resultB>>

\* Cap on gateway calls per task in the step-by-step spawn.
MaxSpawnAttempts == 2

VARIABLES
    spawnRegistry,      \* task registry: status per task
    spawnSteps,         \* position of the dispatcher in the spawn of each task
    gatewayCalls,       \* per task: the registry status when the gateway was last called
    gatewayAttempts     \* gateway calls per task so far

spawnVars == <<spawnRegistry, spawnSteps, gatewayCalls, gatewayAttempts>>

\* Cap on the attempts history of a review state.
MaxReviewAttempts == 3

VARIABLES
    reviewState,        \* the phase's ReviewState as saved: status, attempts, sessions
    activeReviews       \* the phase's ReviewState is in the activeReviews map

reviewStateVars == <<reviewState, activeReviews>>

\* Cap on the commits of a branch of the repository.
MaxCommits == 2

VARIABLES
    checkedOut,         \* the branch checked out in the repository
    heads,              \* commit at the head of each branch, 0: no such branch
    merging,            \* a merge is in progress (MERGE_HEAD exists)
    beforeMerge,        \* checked-out branch and HEAD when mergeToMain was called
    mergeOutcome        \* how mergeToMain ended, none once work went on

mergeVars == <<checkedOut, heads, merging, beforeMerge, mergeOutcome>>

\* Cap on policy.maxAttempts of the policies tried.
MaxPolicyAttempts == 3

VARIABLES
    policyState,    \* the RetryState of one (runId, stepOrder) key, or absent
    retryDelayMs    \* what calculateRetryDelay returned to the last
                    \* recordAttempt, -1 if it was not called

retryVars == <<policyState, retryDelayMs>>

VARIABLES
    phaseInMap,        \* the phase's PhaseState object in activePhases, or NoPhase
    phaseOnDisk,       \* the phase's persisted state file, or NoPhase
    lastCollectorCall  \* the phase collector function that returned last

phaseStatusVars == <<phaseInMap, phaseOnDisk, lastCollectorCall>>

\* Cap on clock advances in the phase advancement part.
MaxTicks == 3
\* Cap on triggerPhaseWork calls that pass the cooldown test.
MaxPhaseWorkStarts == 3

VARIABLES
    projState,          \* state.json of the project: phase and status
    projFiles,          \* what the advance conditions read: interview.json,
                        \* specs/IMPLEMENTATION_PLAN.md, progress.md
    activePhaseWork,    \* the activePhaseWork map: last trigger time per phase
    nowMs,              \* Date.now()
    ticks,              \* clock advances so far
    phaseWorkLog,       \* triggerPhaseWork calls that passed the cooldown
                        \* test: phase, time, whether agents were spawned
    lastTrigger,        \* the last triggerPhaseWork call and whether it was skipped
    triggeredProjects   \* the spec watcher's triggeredProjects set has the project

advanceVars == <<projState, projFiles, activePhaseWork, nowMs, ticks,
                 phaseWorkLog, lastTrigger, triggeredProjects>>

\* Cap on recoverStalledProject calls.
MaxWatchdogRuns == 5
\* Tasks of progress.md in the watchdog part, in file order.
NumWatchdogTasks == 3

VARIABLES
    incompleteTasks,    \* unchecked tasks with an @id in progress.md
    watchdogRetries,    \* watchdog-retry events per task in activity.jsonl
    watchdogEscalates,  \* watchdog-escalate events per task in activity.jsonl
    orchestrateRetries, \* POST orchestrate requests sent by the watchdog, per task
    watchdogRuns,       \* recoverStalledProject calls so far
    watchdogStatus      \* status of the last RecoveryResult

watchdogVars == <<incompleteTasks, watchdogRetries, watchdogEscalates,
                  orchestrateRetries, watchdogRuns, watchdogStatus>>

\* Phase headers of the progress.md documents of the phase-derivation part.
NumDocPhases == 2

VARIABLES
    docPhase,       \* progress.md: the phase header each task line stands under
    docDepends,     \* progress.md: the (depends: ...) ids of each task line
    docDone,        \* progress.md: the task lines that are checked off
    graphDone,      \* task graph of the last orchestrate request: its done flags
    phaseInfos      \* PhaseInfo status per phase of the last orchestrate request

phasesVars == <<docPhase, docDepends, docDone, graphDone, phaseInfos>>

\* Cap on failed appends to the ledger file.
MaxAppendFailures == 1

VARIABLES
    appendFailures  \* ledger operations rejected by a failed appendFile

faultVars == <<appendFailures>>

VARIABLES
    trackedWorkers, \* phase collector: status of each worker of each phase state
    liveWorkers,    \* tasks with a spawned worker that has not reported yet
    collectReturn   \* what the last onWorkerComplete call returned

trackVars == <<trackedWorkers, liveWorkers, collectReturn>>

\* Cap on failed spawns per task in the retry-key part.
MaxKeyFailures == 3

VARIABLES
    keyRetryStates, \* retry states of one run, by step order
    keyFailures,    \* failed spawns of each task so far
    keyEscalations  \* task ids of the escalations created

keyVars == <<keyRetryStates, keyFailures, keyEscalations>>

\* what the pipeline runner leaves alone
notPipe == <<projVars, ledgerVars, reviewVars, fileVars, collectVars, orderVars, spawnVars, reviewStateVars, mergeVars, retryVars, phaseStatusVars, advanceVars, watchdogVars, phasesVars, faultVars, trackVars, keyVars>>

\* what the project dispatcher leaves alone
notProj == <<pipeVars, ledgerVars, reviewVars, fileVars, collectVars, orderVars, spawnVars, reviewStateVars, mergeVars, retryVars, phaseStatusVars, advanceVars, watchdogVars, phasesVars, faultVars, trackVars, keyVars>>

\* what the ledger leaves alone
notLedger == <<pipeVars, projVars, reviewVars, fileVars, collectVars, orderVars, spawnVars, reviewStateVars, mergeVars, retryVars, phaseStatusVars, advanceVars, watchdogVars, phasesVars, faultVars, trackVars, keyVars>>

\* what the review flow leaves alone
notReview == <<pipeVars, projVars, ledgerVars, fileVars, collectVars, orderVars, spawnVars, reviewStateVars, mergeVars, retryVars, phaseStatusVars, advanceVars, watchdogVars, phasesVars, faultVars, trackVars, keyVars>>

\* what the state-file writers leave alone
notFiles == <<pipeVars, projVars, ledgerVars, reviewVars, collectVars, orderVars, spawnVars, reviewStateVars, mergeVars, retryVars, phaseStatusVars, advanceVars, watchdogVars, phasesVars, faultVars, trackVars, keyVars>>

\* what the phase collector leaves alone
notCollect == <<pipeVars, projVars, ledgerVars, reviewVars, fileVars, orderVars, spawnVars, reviewStateVars, mergeVars, retryVars, phaseStatusVars, advanceVars, watchdogVars, phasesVars, faultVars, trackVars, keyVars>>

\* what the two application orders leave alone
notOrder == <<pipeVars, projVars, ledgerVars, reviewVars, fileVars, collectVars, spawnVars, reviewStateVars, mergeVars, retryVars, phaseStatusVars, advanceVars, watchdogVars, phasesVars, faultVars, trackVars, keyVars>>

\* what the step-by-step spawn leaves alone
notSpawn == <<pipeVars, projVars, ledgerVars, reviewVars, fileVars, collectVars, orderVars, reviewStateVars, mergeVars, retryVars, phaseStatusVars, advanceVars, watchdogVars, phasesVars, faultVars, trackVars, keyVars>>

\* what the review state leaves alone
notReviewState == <<pipeVars, projVars, ledgerVars, reviewVars, fileVars, collectVars, orderVars, spawnVars, mergeVars, retryVars, phaseStatusVars, advanceVars, watchdogVars, phasesVars, faultVars, trackVars, keyVars>>

\* what mergeToMain leaves alone
notMerge == <<pipeVars, projVars, ledgerVars, reviewVars, fileVars, collectVars, orderVars, spawnVars, reviewStateVars, retryVars, phaseStatusVars, advanceVars, watchdogVars, phasesVars, faultVars, trackVars, keyVars>>

\* what the retry handler leaves alone
notRetry == <<pipeVars, projVars, ledgerVars, reviewVars, fileVars, collectVars, orderVars, spawnVars, reviewStateVars, mergeVars, phaseStatusVars, advanceVars, watchdogVars, phasesVars, faultVars, trackVars, keyVars>>

\* what the phase status handlers leaves alone
notPhaseStatus == <<pipeVars, projVars, ledgerVars, reviewVars, fileVars, collectVars, orderVars, spawnVars, reviewStateVars, mergeVars, retryVars, advanceVars, watchdogVars, phasesVars, faultVars, trackVars, keyVars>>

\* what the phase advancement handlers leaves alone
notAdvance == <<pipeVars, projVars, ledgerVars, reviewVars, fileVars, collectVars, orderVars, spawnVars, reviewStateVars, mergeVars, retryVars, phaseStatusVars, watchdogVars, phasesVars, faultVars, trackVars, keyVars>>

\* what the progress watchdog leaves alone
notWatchdog == <<pipeVars, projVars, ledgerVars, reviewVars, fileVars, collectVars, orderVars, spawnVars, reviewStateVars, mergeVars, retryVars, phaseStatusVars, advanceVars, phasesVars, faultVars, trackVars, keyVars>>

\* what the phase state derivation leaves alone
notPhases == <<pipeVars, projVars, ledgerVars, reviewVars, fileVars, collectVars, orderVars, spawnVars, reviewStateVars, mergeVars, retryVars, phaseStatusVars, advanceVars, watchdogVars, faultVars, trackVars, keyVars>>

\* what a ledger operation with a failing append leaves alone
notLedgerFaults == <<pipeVars, projVars, reviewVars, fileVars, collectVars, orderVars, spawnVars, reviewStateVars, mergeVars, retryVars, phaseStatusVars, advanceVars, watchdogVars, phasesVars, trackVars, keyVars>>

\* what the phase tracking, which reads and checks off progress.md, leaves alone
notTrack == <<pipeVars, projVars, ledgerVars, reviewVars, fileVars, collectVars, orderVars, spawnVars, reviewStateVars, mergeVars, retryVars, phaseStatusVars, advanceVars, watchdogVars, faultVars, keyVars>>

\* what the retry keys leaves alone
notKey == <<pipeVars, projVars, ledgerVars, reviewVars, fileVars, collectVars, orderVars, spawnVars, reviewStateVars, mergeVars, retryVars, phaseStatusVars, advanceVars, watchdogVars, phasesVars, faultVars, trackVars>>

StepOrders == 1..NumSteps

NoRun == [status |-> "none"]

NoRetryState == [attempts |-> <<>>, status |-> "absent"]

\* steps[stepIndex].order for the sorted steps (stepIndex is 0-based)
StepAt(stepIndex) == stepIndex + 1

\* The pipeline runner's mutable world, passed through the handlers.
World ==
    [run |-> activeRuns, file |-> runFile, s2r |-> sessionToRun,
     retry |-> retryStates, timers |-> retryTimers, spawns |-> spawns,
     esc |-> escalations, res |-> stepResponse]

\* spawnStep: creates a task entry and asks the gateway for a session; ok is
\* the gateway's answer.  The session key is the index of the new entry.
SpawnStep(w, stepIndex, ok) ==
    [w EXCEPT !.spawns = Append(@, [stepOrder |-> StepAt(stepIndex),
                                    state |-> IF ok THEN "live" ELSE "spawnFailed"])]

\* the caller's bookkeeping after a successful spawnStep
SetActiveSession(w) ==
    [w EXCEPT !.run.activeSessionKey = Len(w.spawns),
              !.run.activeTaskId = Len(w.spawns),
              !.s2r = @ \cup {Len(w.spawns)}]

\* recordAttempt: auto-initialises a missing state, pushes the attempt and
\* derives the status from the new length.
RecordAttempt(rs, stepOrder, success) ==
    LET state == IF rs[stepOrder].status = "absent"
                 THEN [attempts |-> <<>>, status |-> "pending"]
                 ELSE rs[stepOrder]
        att == Append(state.attempts, success)
    IN  [rs EXCEPT ![stepOrder] =
            [attempts |-> att,
             status |-> IF success THEN "succeeded"
                        ELSE IF Len(att) >= DefaultMaxAttempts THEN "exhausted"
                        ELSE "retrying"]]

\* createEscalation: a new open escalation; its id is its index in the store.
CreateEscalationOfLowSeverity(w, stepOrder, taskId) ==
    [w EXCEPT !.esc = Append(@, [stepOrder |-> stepOrder, taskId |-> taskId,
                                 severity |-> "low", status |-> "open"])]

CreateEscalation(w, stepOrder, taskId) ==
    [w EXCEPT !.esc = Append(@, [stepOrder |-> stepOrder, taskId |-> taskId,
                                 severity |-> "high", status |-> "open"])]

\* The common tail of the skip paths and of a completed step: the run is
\* completed and leaves activeRuns, or the next step is spawned.
ContinueOrComplete(w, ok) ==
    IF w.run.currentStepIndex >= NumSteps
    THEN LET done == [w.run EXCEPT !.status = "completed"]
         IN  [w EXCEPT !.run = NoRun, !.file = done]
    ELSE LET w1 == SpawnStep(w, w.run.currentStepIndex, ok)
         IN  IF ~ok
             THEN LET failed == [w1.run EXCEPT !.status = "failed"]
                  IN  [w1 EXCEPT !.run = failed, !.file = failed]
             ELSE LET w2 == SetActiveSession(w1)
                  IN  [w2 EXCEPT !.file = w2.run]

\* handleStepFailure: records the failed attempt and, unless the retries are
\* exhausted, schedules executeRetry with setTimeout.
HandleStepFailure(w, stepOrder) ==
    LET rs == RecordAttempt(w.retry, stepOrder, FALSE)
    IN  IF rs[stepOrder].status = "exhausted"
        THEN [w EXCEPT !.retry = rs]
        ELSE [w EXCEPT !.retry = rs, !.timers[stepOrder] = @ + 1]

\* advanceRun for the current step of the run in activeRuns
AdvanceRun(w, status, ok) ==
    LET cur == StepAt(w.run.currentStepIndex)
        w1 == [w EXCEPT !.run.stepResults =
                            Append(@, [stepOrder |-> cur, status |-> status,
                                       escalationId |-> 0]),
                        !.run.activeSessionKey = 0,
                        !.run.activeTaskId = 0,
                        !.s2r = @ \ {w.run.activeSessionKey}]
    IN  IF status = "failed"
        THEN LET w2 == HandleStepFailure(w1, cur)
             IN  IF w2.retry[cur].status # "exhausted"
                 THEN [w2 EXCEPT !.file = w2.run]
                 ELSE LET w3 == CreateEscalation(w2, cur, w2.run.activeTaskId)
                          last == Len(w3.run.stepResults)
                          w4 == [w3 EXCEPT
                                   !.run.stepResults[last] =
                                       [stepOrder |-> cur, status |-> "skipped",
                                        escalationId |-> Len(w3.esc)],
                                   !.run.currentStepIndex = @ + 1]
                      IN  ContinueOrComplete(w4, ok)
        ELSE LET w2 == [w1 EXCEPT !.retry[cur] = NoRetryState,
                                  !.run.currentStepIndex = @ + 1]
             IN  ContinueOrComplete(w2, ok)

\* onStepCompleteByRun: the entry point of the worker-complete webhook.  A
\* run that is not found and a step order that is not the current step's
\* return an error; with currentStepIndex past the last step currentStep is
\* undefined and reading its order throws; otherwise advanceRun answers.
OnStepCompleteByRun(w, stepOrder, status, ok) ==
    LET runState == IF w.run # NoRun THEN w.run ELSE w.file
        w1 == [w EXCEPT !.run = runState]
        Answer(result) == [stepOrder |-> stepOrder, result |-> result]
    IN  IF runState = NoRun THEN [w EXCEPT !.res = Answer("error")]
        ELSE IF runState.currentStepIndex >= NumSteps
        THEN [w1 EXCEPT !.res = Answer("throws")]
        ELSE IF StepAt(runState.currentStepIndex) # stepOrder
        THEN [w1 EXCEPT !.res = Answer("error")]
        ELSE [AdvanceRun(w1, status, ok) EXCEPT !.res = Answer("advanced")]

PipeInit ==
    /\ activeRuns = NoRun
    /\ runFile = NoRun
    /\ sessionToRun = {}
    /\ retryStates = [o \in StepOrders |-> NoRetryState]
    /\ retryTimers = [o \in StepOrders |-> 0]
    /\ spawns = <<>>
    /\ delivered = {}
    /\ deliveries = 0
    /\ escalations = <<>>
    /\ stepResponse = [stepOrder |-> 0, result |-> "none"]

\* assigns the handlers' resulting world to the variables
Commit(w) ==
    /\ activeRuns' = w.run
    /\ runFile' = w.file
    /\ sessionToRun' = w.s2r
    /\ retryStates' = w.retry
    /\ retryTimers' = w.timers
    /\ spawns' = w.spawns
    /\ escalations' = w.esc
    /\ stepResponse' = w.res
    /\ Len(w.spawns) <= MaxSpawns

\* startRun: creates the run, stores and saves it, spawns the first step.
StartRun(ok) ==
    /\ activeRuns = NoRun
    /\ runFile = NoRun
    /\ LET runState == [status |-> "running", currentStepIndex |-> 0,
                        stepResults |-> <<>>, activeSessionKey |-> 0,
                        activeTaskId |-> 0]
           w0 == [World EXCEPT !.run = runState, !.file = runState]
           w1 == SpawnStep(w0, 0, ok)
       IN  IF ~ok
           THEN LET failed == [w1.run EXCEPT !.status = "failed"]
                IN  Commit([w1 EXCEPT !.run = failed, !.file = failed])
           ELSE LET w2 == SetActiveSession(w1)
                IN  Commit([w2 EXCEPT !.file = w2.run])
    /\ UNCHANGED <<delivered, deliveries>>
    /\ UNCHANGED notPipe

\* A live session of a step reports its result: the first delivery of the
\* worker-complete webhook (runId, stepOrder, status).
WorkerReports(s, status, ok) ==
    /\ deliveries < MaxDeliveries
    /\ s \in 1..Len(spawns)
    /\ spawns[s].state = "live"
    /\ LET w0 == [World EXCEPT !.spawns[s].state = status]
       IN  Commit(OnStepCompleteByRun(w0, spawns[s].stepOrder, status, ok))
    /\ delivered' = delivered \cup {<<spawns[s].stepOrder, status>>}
    /\ deliveries' = deliveries + 1
    /\ UNCHANGED notPipe

\* The webhook transport delivers an already delivered payload again.
DuplicateDelivery(stepOrder, status, ok) ==
    /\ deliveries < MaxDeliveries
    /\ <<stepOrder, status>> \in delivered
    /\ Commit(OnStepCompleteByRun(World, stepOrder, status, ok))
    /\ UNCHANGED delivered
    /\ deliveries' = deliveries + 1
    /\ UNCHANGED notPipe

\* executeRetry, run by a pending retry timer of the step.  ok is the
\* gateway's answer for the retried step, ok2 for the next step if the
\* retried one is skipped.
ExecuteRetry(w, stepOrder, ok, ok2) ==
    LET runState == IF w.run # NoRun THEN w.run ELSE w.file
        stepIndex == stepOrder - 1
        kept == SelectSeq(runState.stepResults, LAMBDA r : r.stepOrder # stepOrder)
        w1 == [w EXCEPT !.run = [runState EXCEPT !.stepResults = kept]]
        w2 == SpawnStep(w1, stepIndex, ok)
    IN  IF runState = NoRun THEN w
        ELSE IF ok
        THEN LET w3 == SetActiveSession(w2)
             IN  [w3 EXCEPT !.file = w3.run]
        ELSE LET rs == RecordAttempt(w2.retry, stepOrder, FALSE)
                 w3 == [w2 EXCEPT !.retry = rs]
             IN  IF rs[stepOrder].status # "exhausted"
                 THEN [w3 EXCEPT !.timers[stepOrder] = @ + 1]
                 ELSE LET w4 == CreateEscalation(w3, stepOrder, 0)
                          w5 == [w4 EXCEPT
                                   !.run.stepResults =
                                       Append(@, [stepOrder |-> stepOrder,
                                                  status |-> "skipped",
                                                  escalationId |-> Len(w4.esc)]),
                                   !.run.currentStepIndex = @ + 1]
                      IN  ContinueOrComplete(w5, ok2)

RetryTimerFires(stepOrder, ok, ok2) ==
    /\ retryTimers[stepOrder] > 0
    /\ Commit(ExecuteRetry([World EXCEPT !.timers[stepOrder] = @ - 1],
                           stepOrder, ok, ok2))
    /\ UNCHANGED <<delivered, deliveries>>
    /\ UNCHANGED notPipe

PipeNext ==
    \/ \E ok \in BOOLEAN : StartRun(ok)
    \/ \E s \in 1..MaxSpawns, status \in {"completed", "failed"}, ok \in BOOLEAN :
          WorkerReports(s, status, ok)
    \/ \E stepOrder \in StepOrders, status \in {"completed", "failed"}, ok \in BOOLEAN :
          DuplicateDelivery(stepOrder, status, ok)
    \/ \E stepOrder \in StepOrders, ok \in BOOLEAN, ok2 \in BOOLEAN :
          RetryTimerFires(stepOrder, ok, ok2)

(***************************************************************************)
(* Part 2: project dispatcher (orchestrate endpoint, triggerOrchestrator)  *)
(* and task registry                                                       *)
(***************************************************************************)

\* Concurrent dispatcher invocations (request handlers in flight).
Handlers == 1..2
\* Cap on project runs created.
MaxRuns == 2
\* Cap on dispatcher invocations (orchestrate requests, triggerOrchestrator calls).
MaxRequests == 4
\* Cap on failed worker spawns.
MaxSpawnFailures == 3

RunIds == 1..MaxRuns

\* The modelled progress.md: phase 1 holds t1 and t2, phase 2 holds t3.
Tasks == {"t1", "t2", "t3"}

PhaseNumbers == 1..2

PhaseTasks(p) == IF p = 1 THEN {"t1", "t2"} ELSE {"t3"}

PhaseOf(t) == IF t \in PhaseTasks(1) THEN 1 ELSE 2

\* (depends: ...) annotations of the task lines
Depends(t) == IF t = "t3" THEN {"t1"} ELSE {}

\* charCodeAt for the characters of a task id
TaskChars(t) ==
    IF t = "t1" THEN <<116, 49>>
    ELSE IF t = "t2" THEN <<116, 50>>
    ELSE IF t = "Aa" THEN <<65, 97>>
    ELSE IF t = "BB" THEN <<66, 66>>
    ELSE <<116, 51>>

\* ((hash << 5) - hash) + char, truncated to a signed 32-bit integer; the
\* product is taken on 16-bit halves.
HashStep(hash, char) ==
    LET hi == hash \div 65536
        lo == hash % 65536
        x == 31 * lo + char
        h2 == (31 * hi + (x \div 65536)) % 65536
        shi == IF h2 >= 32768 THEN h2 - 65536 ELSE h2
    IN  shi * 65536 + (x % 65536)

RECURSIVE HashFrom(_, _, _)
HashFrom(chars, i, hash) ==
    IF i > Len(chars) THEN hash ELSE HashFrom(chars, i + 1, HashStep(hash, chars[i]))

\* hashTaskId: Math.abs(hash) % 100000
HashTaskId(t) ==
    LET hash == HashFrom(TaskChars(t), 1, 0)
    IN  IF hash = -2147483647 - 1 THEN 83648
        ELSE (IF hash < 0 THEN -hash ELSE hash) % 100000

\* the retry key's step order of a task: phaseNumber * 100000 + hashTaskId
TaskStepOrder(phaseNumber, t) == phaseNumber * 100000 + HashTaskId(t)

TaskKeys == {TaskStepOrder(PhaseOf(t), t) : t \in Tasks}

IdleHandler ==
    [pc |-> "idle", run |-> 0, phase |-> 0, tasks |-> {}, done |-> {}, loaded |-> 0]

\* parsePhases: the status of every phase, derived from the done flags
RECURSIVE PhaseStatus(_, _)
PhaseStatus(p, done) ==
    LET allDone == PhaseTasks(p) # {} /\ PhaseTasks(p) \subseteq done
        anyRunning == PhaseTasks(p) \ done # {}
    IN  IF allDone THEN "completed"
        ELSE IF anyRunning /\ p = 1 THEN "running"
        ELSE IF anyRunning /\ \A q \in 1..(p - 1) : PhaseStatus(q, done) = "completed"
        THEN "running"
        ELSE "pending"

ParsePhases(done) == [p \in PhaseNumbers |-> PhaseStatus(p, done)]

\* getCurrentPhase: the first phase that is not completed, 0 if none
GetCurrentPhase(phases) ==
    IF \A p \in PhaseNumbers : phases[p] = "completed" THEN 0
    ELSE CHOOSE p \in PhaseNumbers :
            /\ phases[p] # "completed"
            /\ \A q \in PhaseNumbers : q < p => phases[q] = "completed"

\* getPhaseReadyTasks
GetPhaseReadyTasks(p, done) ==
    {t \in PhaseTasks(p) : t \notin done /\ Depends(t) \subseteq done}

\* getReadyTasks over the whole task graph
GetReadyTasks(done) ==
    {t \in Tasks : t \notin done /\ Depends(t) \subseteq done}

\* canSpawnTask
CanSpawnTask(reg, t) == reg[t] \notin {"running", "completed"}

\* filterSpawnableTasks
FilterSpawnableTasks(reg, tasks) == {t \in tasks : CanSpawnTask(reg, t)}

\* registerTask
RegisterTask(reg, t) == [reg EXCEPT ![t] = "running"]

\* updateTaskStatus
UpdateTaskStatus(reg, t, status) ==
    IF reg[t] = "absent" THEN reg ELSE [reg EXCEPT ![t] = status]

ProjInit ==
    /\ progressDone = {}
    /\ registry = [t \in Tasks |-> "absent"]
    /\ activeProjectRuns = 0
    /\ projectRunFile = 0
    /\ projectRuns = [r \in RunIds |-> [status |-> "none", currentPhaseNumber |-> 0]]
    /\ handlers = [h \in Handlers |-> IdleHandler]
    /\ phaseStates = {}
    /\ taskRetryStates = [k \in RunIds \X TaskKeys |-> NoRetryState]
    /\ pendingRetries = [k \in RunIds \X Tasks |-> 0]
    /\ workers = [t \in Tasks |-> 0]
    /\ phaseMerged = {}
    /\ taskEscalations = <<>>
    /\ requests = 0
    /\ spawnFailures = 0

CreatedRuns == {r \in RunIds : projectRuns[r].status # "none"}

\* getOrCreateRun after the lookup (found is the run of the map or of the
\* state file, 0 if none), then the handler up to the filtered task list.
\* merge is the answer of mergePhaseWithReview in the branch taken when the
\* current phase has no ready task and none open.
ResolveRunAndDispatch(h, found, done, merge) ==
    LET create == found = 0 \/ projectRuns[found].status \in {"completed", "failed"}
        runId == IF create THEN Cardinality(CreatedRuns) + 1 ELSE found
        phases == ParsePhases(done)
        cur == GetCurrentPhase(phases)
        runs1 == IF create
                 THEN [projectRuns EXCEPT ![runId] =
                          [status |-> "running", currentPhaseNumber |-> cur]]
                 ELSE projectRuns
        ready == GetPhaseReadyTasks(cur, done)
        spawnable == FilterSpawnableTasks(registry, ready)
        tasksToSpawn ==
            {t \in spawnable :
                taskRetryStates[<<runId, TaskStepOrder(cur, t)>>].status # "exhausted"}
    IN  /\ runId \in RunIds
        /\ activeProjectRuns' = runId
        /\ projectRunFile' = runId
        /\ IF ready = {}
           THEN /\ handlers' = [handlers EXCEPT ![h] = IdleHandler]
                /\ phaseStates' = phaseStates
                /\ IF PhaseTasks(cur) \subseteq done
                   THEN projectRuns' =
                          [runs1 EXCEPT
                             ![runId].status =
                                 IF merge = "conflict" THEN "merging" ELSE merge,
                             ![runId].currentPhaseNumber =
                                 IF merge \in {"reviewing", "running"}
                                 THEN cur + 1 ELSE @]
                   ELSE projectRuns' = runs1
           ELSE /\ projectRuns' = runs1
                /\ phaseStates' =
                      IF \E ps \in phaseStates :
                            ps.runId = runId /\ ps.phaseNumber = cur
                      THEN phaseStates
                      ELSE phaseStates \cup
                             {[runId |-> runId, phaseNumber |-> cur, workerIds |-> ready]}
                /\ handlers' = [handlers EXCEPT ![h] =
                      [pc |-> "spawning", run |-> runId, phase |-> cur,
                       tasks |-> tasksToSpawn, done |-> {}, loaded |-> 0]]

\* The orchestrate handler from the request to the end of getOrCreateRun's
\* map lookup: progress.md is read; on a hit in activeProjectRuns the handler
\* goes on, on a miss it waits for loadRunState.
BeginOrchestrate(h, merge) ==
    /\ handlers[h].pc = "idle"
    /\ requests < MaxRequests
    /\ requests' = requests + 1
    /\ GetCurrentPhase(ParsePhases(progressDone)) # 0
    /\ IF activeProjectRuns # 0
       THEN ResolveRunAndDispatch(h, activeProjectRuns, progressDone, merge)
       ELSE /\ handlers' = [handlers EXCEPT ![h] =
                  [IdleHandler EXCEPT !.pc = "loading", !.done = progressDone,
                                      !.loaded = projectRunFile]]
            /\ UNCHANGED <<activeProjectRuns, projectRunFile, projectRuns, phaseStates>>

\* POST orchestrate {action: start | continue} by an operator, the phase
\* advancer or the progress watchdog
OrchestrateRequest(h, merge) ==
    /\ BeginOrchestrate(h, merge)
    /\ UNCHANGED <<progressDone, registry, taskRetryStates, pendingRetries,
                   workers, phaseMerged, taskEscalations, spawnFailures>>
    /\ UNCHANGED notProj

\* A pending retry timer of (runId, taskId) fires: the key is deleted and
\* the orchestrate endpoint is called with action continue.
RetryTimerOrchestrate(h, r, t, merge) ==
    /\ pendingRetries[<<r, t>>] > 0
    /\ pendingRetries' = [pendingRetries EXCEPT ![<<r, t>>] = @ - 1]
    /\ BeginOrchestrate(h, merge)
    /\ UNCHANGED <<progressDone, registry, taskRetryStates, workers,
                   phaseMerged, taskEscalations, spawnFailures>>
    /\ UNCHANGED notProj

\* loadRunState has answered: getOrCreateRun and the handler go on.
OrchestrateRunLoaded(h, merge) ==
    /\ handlers[h].pc = "loading"
    /\ ResolveRunAndDispatch(h, handlers[h].loaded, handlers[h].done, merge)
    /\ UNCHANGED <<progressDone, registry, taskRetryStates, pendingRetries,
                   workers, phaseMerged, taskEscalations, requests, spawnFailures>>
    /\ UNCHANGED notProj

\* handleWorkerSpawnFailure: records the attempt; escalates when exhausted,
\* else cancels a pending timer of the key and schedules a new one.
HandleWorkerSpawnFailure(runId, phaseNumber, t) ==
    LET key == <<runId, TaskStepOrder(phaseNumber, t)>>
        rs == RecordAttempt(taskRetryStates, key, FALSE)
    IN  /\ taskRetryStates' = rs
        /\ IF rs[key].status = "exhausted"
           THEN /\ taskEscalations' =
                      Append(taskEscalations,
                             [runId |-> runId, stepOrder |-> phaseNumber,
                              taskId |-> t, severity |-> "high", status |-> "open"])
                /\ UNCHANGED pendingRetries
           ELSE /\ pendingRetries' =
                      [[pendingRetries EXCEPT ![<<runId, t>>] = 0]
                          EXCEPT ![<<runId, t>>] = @ + 1]
                /\ UNCHANGED taskEscalations

\* One round of the handler's spawn loop: wakeAgent, then registerTask; a
\* failed wakeAgent goes to handleWorkerSpawnFailure.
OrchestrateSpawn(h, t, ok) ==
    /\ handlers[h].pc = "spawning"
    /\ t \in handlers[h].tasks
    /\ handlers' = [handlers EXCEPT ![h].tasks = @ \ {t}]
    /\ IF ok
       THEN /\ workers' = [workers EXCEPT ![t] = @ + 1]
            /\ registry' = RegisterTask(registry, t)
            /\ UNCHANGED <<taskRetryStates, pendingRetries, taskEscalations,
                           spawnFailures>>
       ELSE /\ spawnFailures < MaxSpawnFailures
            /\ spawnFailures' = spawnFailures + 1
            /\ HandleWorkerSpawnFailure(handlers[h].run, handlers[h].phase, t)
            /\ UNCHANGED <<workers, registry>>
    /\ UNCHANGED <<progressDone, activeProjectRuns, projectRunFile, projectRuns,
                   phaseStates, phaseMerged, requests>>
    /\ UNCHANGED notProj

\* The end of the handler: the run is set to running in the handled phase
\* and saved.
OrchestrateFinish(h) ==
    /\ handlers[h].pc = "spawning"
    /\ handlers[h].tasks = {}
    /\ projectRuns' = [projectRuns EXCEPT
                         ![handlers[h].run] =
                             [status |-> "running",
                              currentPhaseNumber |-> handlers[h].phase]]
    /\ projectRunFile' = handlers[h].run
    /\ handlers' = [handlers EXCEPT ![h] = IdleHandler]
    /\ UNCHANGED <<progressDone, registry, activeProjectRuns, phaseStates,
                   taskRetryStates, pendingRetries, workers, phaseMerged,
                   taskEscalations, requests, spawnFailures>>
    /\ UNCHANGED notProj

\* triggerOrchestrator up to the filtered task list
TriggerOrchestrator(h) ==
    /\ handlers[h].pc = "idle"
    /\ requests < MaxRequests
    /\ requests' = requests + 1
    /\ FilterSpawnableTasks(registry, GetReadyTasks(progressDone)) # {}
    /\ handlers' = [handlers EXCEPT ![h] =
          [IdleHandler EXCEPT
              !.pc = "triggerSpawning", !.done = progressDone,
              !.tasks = FilterSpawnableTasks(registry, GetReadyTasks(progressDone))]]
    /\ UNCHANGED <<progressDone, registry, activeProjectRuns, projectRunFile,
                   projectRuns, phaseStates, taskRetryStates, pendingRetries,
                   workers, phaseMerged, taskEscalations, spawnFailures>>
    /\ UNCHANGED notProj

\* One round of triggerOrchestrator's spawn loop: registerTask, then
\* spawnSession; a failed spawn marks the entry failed.
TriggerSpawn(h, t, ok) ==
    /\ handlers[h].pc = "triggerSpawning"
    /\ t \in handlers[h].tasks
    /\ handlers' = [handlers EXCEPT ![h] =
          IF handlers[h].tasks = {t} THEN IdleHandler
          ELSE [handlers[h] EXCEPT !.tasks = @ \ {t}]]
    /\ IF ok
       THEN /\ workers' = [workers EXCEPT ![t] = @ + 1]
            /\ registry' = RegisterTask(registry, t)
            /\ UNCHANGED spawnFailures
       ELSE /\ spawnFailures < MaxSpawnFailures
            /\ spawnFailures' = spawnFailures + 1
            /\ registry' = UpdateTaskStatus(RegisterTask(registry, t), t, "failed")
            /\ UNCHANGED workers
    /\ UNCHANGED <<progressDone, activeProjectRuns, projectRunFile, projectRuns,
                   phaseStates, taskRetryStates, pendingRetries, phaseMerged,
                   taskEscalations, requests>>
    /\ UNCHANGED notProj

\* The task-complete webhook of a live worker: the task is checked off in
\* progress.md and its registry entry is set to completed.
TaskComplete(t) ==
    /\ workers[t] > 0
    /\ workers' = [workers EXCEPT ![t] = @ - 1]
    /\ progressDone' = progressDone \cup {t}
    /\ registry' = UpdateTaskStatus(registry, t, "completed")
    /\ UNCHANGED <<activeProjectRuns, projectRunFile, projectRuns, handlers,
                   phaseStates, taskRetryStates, pendingRetries, phaseMerged,
                   taskEscalations, requests, spawnFailures>>
    /\ UNCHANGED notProj

\* The review-result webhook with status approved for a phase: handleApproval
\* merges the phase branch into main.
PhaseApproved(r, p) ==
    /\ \E ps \in phaseStates : ps.runId = r /\ ps.phaseNumber = p
    /\ PhaseTasks(p) \subseteq progressDone
    /\ p \notin phaseMerged
    /\ phaseMerged' = phaseMerged \cup {p}
    /\ UNCHANGED <<progressDone, registry, activeProjectRuns, projectRunFile,
                   projectRuns, handlers, phaseStates, taskRetryStates,
                   pendingRetries, workers, taskEscalations, requests,
                   spawnFailures>>
    /\ UNCHANGED notProj

MergeResults == {"reviewing", "running", "conflict", "failed"}

ProjNext ==
    \/ \E h \in Handlers, merge \in MergeResults : OrchestrateRequest(h, merge)
    \/ \E h \in Handlers, r \in RunIds, t \in Tasks, merge \in MergeResults :
          RetryTimerOrchestrate(h, r, t, merge)
    \/ \E h \in Handlers, merge \in MergeResults : OrchestrateRunLoaded(h, merge)
    \/ \E h \in Handlers, t \in Tasks, ok \in BOOLEAN : OrchestrateSpawn(h, t, ok)
    \/ \E h \in Handlers : OrchestrateFinish(h)
    \/ \E h \in Handlers : TriggerOrchestrator(h)
    \/ \E h \in Handlers, t \in Tasks, ok \in BOOLEAN : TriggerSpawn(h, t, ok)
    \/ \E t \in Tasks : TaskComplete(t)
    \/ \E r \in RunIds, p \in PhaseNumbers : PhaseApproved(r, p)


(***************************************************************************)
(* Part 3: work ledger (WorkStorage): JSONL records and the cache          *)
(***************************************************************************)

ItemIds == 1..MaxItems

NoItem == [status |-> "absent"]

\* the work state machine's transition check
ValidTransition(from, to) ==
    \/ from = "pending" /\ to \in {"running", "cancelled"}
    \/ from = "running" /\ to \in {"complete", "failed", "cancelled"}

\* applyRecord: folds one ledger record into a cache
ApplyRecord(c, record) ==
    IF record.recordType = "create"
    THEN [c EXCEPT ![record.workId] = record.item]
    ELSE IF c[record.workId] = NoItem THEN c
    ELSE LET item == c[record.workId]
         IN  IF record.recordType = "event"
             THEN [c EXCEPT ![record.workId] =
                     [item EXCEPT !.events = Append(@, record.event),
                                  !.updatedAt = record.event.timestamp]]
             ELSE IF record.recordType = "status"
             THEN [c EXCEPT ![record.workId] =
                     [item EXCEPT
                        !.status = record.status,
                        !.updatedAt = record.timestamp,
                        !.error = IF record.error # "" THEN record.error ELSE @,
                        !.startedAt = IF record.status = "running" /\ @ = 0
                                      THEN record.timestamp ELSE @,
                        !.completedAt =
                            IF record.status \in {"complete", "failed", "cancelled"}
                            THEN record.timestamp ELSE @]]
             ELSE [c EXCEPT ![record.workId] =
                     [item EXCEPT
                        !.childIds = IF record.field = "childIds"
                                     THEN record.value ELSE @,
                        !.output = IF record.field = "output"
                                   THEN record.value ELSE @,
                        !.iterations = IF record.field = "iterations"
                                       THEN record.value ELSE @,
                        !.updatedAt = record.timestamp]]

\* loadDate: the fold of the records, in order, over an empty cache
RECURSIVE ReplayFrom(_, _, _)
ReplayFrom(records, i, c) ==
    IF i > Len(records) THEN c
    ELSE ReplayFrom(records, i + 1, ApplyRecord(c, records[i]))

Replay(records) == ReplayFrom(records, 1, [id \in ItemIds |-> NoItem])

LedgerInit ==
    /\ cache = [id \in ItemIds |-> NoItem]
    /\ ledgerFile = <<>>
    /\ clock = 1

\* timestamp(): the clock reading of an operation, tick after the last one
Now(tick) == clock + tick

\* create: appends the create record, caches the item; with a cached parent,
\* pushes the id on the parent's childIds and appends an update record.
Create(parentId, tick) ==
    LET id == Cardinality({x \in ItemIds : cache[x] # NoItem}) + 1
        now == Now(tick)
        item == [status |-> "pending", parentId |-> parentId, childIds |-> <<>>,
                 iterations |-> 0, output |-> 0, error |-> "",
                 createdAt |-> now, updatedAt |-> now, startedAt |-> 0,
                 completedAt |-> 0,
                 events |-> <<[timestamp |-> now, type |-> "created",
                               from |-> "", to |-> ""]>>]
        created == [recordType |-> "create", workId |-> id, item |-> item]
        hasParent == parentId # 0 /\ cache[parentId] # NoItem
        children == Append(cache[parentId].childIds, id)
    IN  /\ id \in ItemIds
        /\ parentId \in ItemIds \cup {0}
        /\ now <= MaxClock
        /\ clock' = now
        /\ IF hasParent
           THEN /\ cache' = [cache EXCEPT ![id] = item,
                                          ![parentId].childIds = children]
                /\ ledgerFile' = ledgerFile \o
                      <<created,
                        [recordType |-> "update", workId |-> parentId,
                         field |-> "childIds", value |-> children,
                         timestamp |-> now]>>
           ELSE /\ cache' = [cache EXCEPT ![id] = item]
                /\ ledgerFile' = Append(ledgerFile, created)
        /\ Len(ledgerFile') <= MaxRecords
        /\ UNCHANGED notLedger

\* appendEvent
AppendEvent(id, tick) ==
    LET now == Now(tick)
        event == [timestamp |-> now, type |-> "note", from |-> "", to |-> ""]
    IN  /\ cache[id] # NoItem
        /\ now <= MaxClock
        /\ clock' = now
        /\ ledgerFile' = Append(ledgerFile,
                                [recordType |-> "event", workId |-> id, event |-> event])
        /\ cache' = [cache EXCEPT ![id].events = Append(@, event),
                                  ![id].updatedAt = now]
        /\ Len(ledgerFile') <= MaxRecords
        /\ UNCHANGED notLedger

\* updateStatus: appends the status record and a status_change event record,
\* then mutates the cached item; the cached event's data is built after the
\* status was assigned.
UpdateStatus(id, newStatus, error, tick) ==
    LET now == Now(tick)
        item == cache[id]
        mutated == [item EXCEPT
                      !.status = newStatus,
                      !.updatedAt = now,
                      !.error = IF error # "" THEN error ELSE @,
                      !.startedAt = IF newStatus = "running" /\ @ = 0 THEN now ELSE @,
                      !.completedAt =
                          IF newStatus \in {"complete", "failed", "cancelled"}
                          THEN now ELSE @]
    IN  /\ item # NoItem
        /\ ValidTransition(item.status, newStatus)
        /\ now <= MaxClock
        /\ clock' = now
        /\ ledgerFile' = ledgerFile \o
              <<[recordType |-> "status", workId |-> id, status |-> newStatus,
                 timestamp |-> now, error |-> error],
                [recordType |-> "event", workId |-> id,
                 event |-> [timestamp |-> now, type |-> "status_change",
                            from |-> item.status, to |-> newStatus]]>>
        /\ cache' = [cache EXCEPT ![id] =
              [mutated EXCEPT !.events =
                  Append(@, [timestamp |-> now, type |-> "status_change",
                             from |-> mutated.status, to |-> newStatus])]]
        /\ Len(ledgerFile') <= MaxRecords
        /\ UNCHANGED notLedger

\* cancel: updateStatus to cancelled with the default reason
Cancel(id, tick) ==
    /\ cache[id] # NoItem
    /\ UpdateStatus(id, "cancelled", "Cancelled by user", tick)

\* setOutput
SetOutput(id, output, tick) ==
    LET now == Now(tick)
    IN  /\ cache[id] # NoItem
        /\ now <= MaxClock
        /\ clock' = now
        /\ ledgerFile' = Append(ledgerFile,
              [recordType |-> "update", workId |-> id, field |-> "output",
               value |-> output, timestamp |-> now])
        /\ cache' = [cache EXCEPT ![id].output = output, ![id].updatedAt = now]
        /\ Len(ledgerFile') <= MaxRecords
        /\ UNCHANGED notLedger

\* incrementIterations
IncrementIterations(id, tick) ==
    LET now == Now(tick)
        newIterations == cache[id].iterations + 1
    IN  /\ cache[id] # NoItem
        /\ now <= MaxClock
        /\ clock' = now
        /\ ledgerFile' = Append(ledgerFile,
              [recordType |-> "update", workId |-> id, field |-> "iterations",
               value |-> newIterations, timestamp |-> now])
        /\ cache' = [cache EXCEPT ![id].iterations = newIterations,
                                  ![id].updatedAt = now]
        /\ Len(ledgerFile') <= MaxRecords
        /\ UNCHANGED notLedger

LedgerNext ==
    \/ \E parentId \in ItemIds \cup {0}, tick \in {0, 1} : Create(parentId, tick)
    \/ \E id \in ItemIds, tick \in {0, 1} : AppendEvent(id, tick)
    \/ \E id \in ItemIds, newStatus \in {"running", "complete", "failed"},
          error \in {"", "boom"}, tick \in {0, 1} :
          UpdateStatus(id, newStatus, error, tick)
    \/ \E id \in ItemIds, tick \in {0, 1} : Cancel(id, tick)
    \/ \E id \in ItemIds, tick \in {0, 1} : SetOutput(id, 1, tick)
    \/ \E id \in ItemIds, tick \in {0, 1} : IncrementIterations(id, tick)

(***************************************************************************)
(* Part 4: review of one phase branch: review chain, fix cycle, main merge *)
(***************************************************************************)

\* the configured review chain, in order
ReviewChain == <<"reviewer", "security-reviewer", "designer">>

ChainPositions == 1..Len(ReviewChain)

NoFixCycle == [status |-> "none", fixCount |-> 0, reviewCount |-> 0]

\* createFixCycle
CreateFixCycle == [status |-> "pending-fix", fixCount |-> 0, reviewCount |-> 1]

ReviewInit ==
    /\ phaseBranch = FALSE
    /\ reviewerSessions = <<>>
    /\ chainIndex = 0
    /\ chainApprovals = {}
    /\ mainMerges = 0
    /\ fixCycle = NoFixCycle
    /\ fixerSessions = 0
    /\ reviewEscalations = 0
    /\ phaseStatus = "running"
    /\ lastMerge = "none"
    /\ phaseAdvances = 0
    /\ simpleFixers = 0
    /\ fixCalls = <<>>
    /\ reviewResponse = "none"
    /\ reviewDeliveries = 0

\* a reviewer session for a chain position is spawned
SpawnReviewer(sessions, position) ==
    Append(sessions, [position |-> position, state |-> "live",
                      status |-> "", findings |-> 0])

\* mergePhaseWithReview: the workers' branches are collected (the phase is
\* collecting), the phase branch is populated and the first reviewer of the
\* chain is spawned
MergePhaseWithReview ==
    /\ ~phaseBranch
    /\ phaseBranch' = TRUE
    /\ phaseStatus' = "collecting"
    /\ chainIndex' = 1
    /\ reviewerSessions' = SpawnReviewer(reviewerSessions, 1)
    /\ UNCHANGED <<chainApprovals, mainMerges, fixCycle, fixerSessions,
                   reviewEscalations, lastMerge, phaseAdvances, simpleFixers,
                   fixCalls, reviewResponse, reviewDeliveries>>
    /\ UNCHANGED notReview

\* the chain position whose reviewer runs after a result of the reviewer at
\* `position`: the next one on approval, the same one otherwise
NextReviewerSpawnedOnAnyResult(position, status) ==
    position + 1

NextReviewer(position, status) ==
    IF status = "approved" THEN position + 1 ELSE position

\* the review-result handlers' check `allFindings.length === 0`: a request for
\* changes without findings is answered with needs_clarification
RequestWithoutFindingsIsFixed(findings) ==
    FALSE

NeedsClarification(findings) ==
    findings = 0

\* the check of the fix attempts made so far against maxFixAttempts
FixAttemptsExhaustedAfterMax(cycle) ==
    cycle.fixCount > MaxFixAttempts

FixAttemptsExhausted(cycle) ==
    cycle.fixCount >= MaxFixAttempts

\* a finished call leaves the calls in flight
RemoveAt(calls, i) ==
    SubSeq(calls, 1, i - 1) \o SubSeq(calls, i + 1, Len(calls))

\* handleApproval: with a phase branch, merges it to main (mergeOk: merged,
\* otherwise the merge conflicted); a successful merge clears the fix cycle
HandleApproval(mergeOk) ==
    IF phaseBranch /\ mergeOk
    THEN /\ mainMerges' = mainMerges + 1
         /\ lastMerge' = "merged"
         /\ fixCycle' = NoFixCycle
    ELSE /\ lastMerge' = IF phaseBranch THEN "conflict" ELSE lastMerge
         /\ UNCHANGED <<mainMerges, fixCycle>>

\* handleFixRequest up to its first await after getFixCycle: gets the fix
\* cycle of the phase, or creates and stores it, and goes on with this copy
HandleFixRequest ==
    LET cycle == IF fixCycle = NoFixCycle THEN CreateFixCycle ELSE fixCycle
    IN  /\ Len(fixCalls) < MaxFixCalls
        /\ fixCycle' = cycle
        /\ fixCalls' = Append(fixCalls,
              [kind |-> "fix-request", status |-> "", cycle |-> cycle])

\* handlePipelineReviewResult for a payload (status, number of findings): an
\* approval merges and, once merged, advances to the next phase; a request
\* for changes with findings starts handleFixRequest
HandlePipelineReviewResult(status, findings, ok) ==
    IF status = "approved"
    THEN /\ HandleApproval(ok)
         /\ phaseAdvances' =
               IF phaseBranch /\ ok THEN phaseAdvances + 1 ELSE phaseAdvances
         /\ reviewResponse' = IF phaseBranch /\ ok THEN "approved" ELSE "error"
         /\ UNCHANGED fixCalls
    ELSE IF NeedsClarification(findings)
    THEN /\ reviewResponse' = "needs_clarification"
         /\ UNCHANGED <<mainMerges, lastMerge, fixCycle, phaseAdvances, fixCalls>>
    ELSE /\ HandleFixRequest
         /\ UNCHANGED <<mainMerges, lastMerge, phaseAdvances, reviewResponse>>

\* POST review-result for a phase of a run, from a live reviewer session
ReviewResult(s, status, findings, ok) ==
    LET position == reviewerSessions[s].position
        reported == [reviewerSessions EXCEPT ![s].state = "reported",
                                             ![s].status = status,
                                             ![s].findings = findings]
        next == NextReviewer(position, status)
    IN  /\ s <= Len(reviewerSessions)
        /\ reviewerSessions[s].state = "live"
        /\ HandlePipelineReviewResult(status, findings, ok)
        /\ chainApprovals' =
              IF status = "approved" THEN chainApprovals \cup {position}
              ELSE chainApprovals
        /\ IF next # position /\ next \in ChainPositions /\ position = chainIndex
           THEN /\ chainIndex' = next
                /\ reviewerSessions' = SpawnReviewer(reported, next)
           ELSE /\ reviewerSessions' = reported
                /\ UNCHANGED chainIndex
        /\ Len(reviewerSessions') <= MaxReviewerSessions
        /\ UNCHANGED <<phaseBranch, phaseStatus, fixerSessions, simpleFixers,
                       reviewEscalations, reviewDeliveries>>
        /\ UNCHANGED notReview

\* the review-result payload of a session that has reported is delivered
\* again: the handler keeps no record of the results it has handled
DuplicateReviewResult(s, ok) ==
    /\ s <= Len(reviewerSessions)
    /\ reviewerSessions[s].state = "reported"
    /\ reviewDeliveries < MaxReviewDeliveries
    /\ reviewDeliveries' = reviewDeliveries + 1
    /\ HandlePipelineReviewResult(reviewerSessions[s].status,
                                  reviewerSessions[s].findings, ok)
    /\ UNCHANGED <<phaseBranch, phaseStatus, reviewerSessions, chainIndex,
                   chainApprovals, fixerSessions, simpleFixers,
                   reviewEscalations>>
    /\ UNCHANGED notReview

\* handleFixRequest from its check of the attempts to its return: escalates
\* at the maximum; otherwise spawns a fixer and saves its copy of the cycle
\* with the attempt counted; when spawnFixer fails the handler falls back to
\* spawnSimpleFixer, which wakes a fixer outside the fix cycle
FixRequestSaved(i, spawn) ==
    /\ i <= Len(fixCalls)
    /\ fixCalls[i].kind = "fix-request"
    /\ LET cycle == fixCalls[i].cycle
       IN  IF FixAttemptsExhausted(cycle)
           THEN /\ reviewEscalations' = reviewEscalations + 1
                /\ fixCycle' = [cycle EXCEPT !.status = "escalated"]
                /\ reviewResponse' = "escalated"
                /\ UNCHANGED <<fixerSessions, simpleFixers>>
           ELSE IF spawn = "fixer"
           THEN /\ fixCycle' = [cycle EXCEPT !.fixCount = @ + 1,
                                             !.status = "fixing"]
                /\ fixerSessions' = fixerSessions + 1
                /\ reviewResponse' = "fixing"
                /\ UNCHANGED <<reviewEscalations, simpleFixers>>
           ELSE /\ simpleFixers' =
                      IF spawn = "simple" THEN simpleFixers + 1 ELSE simpleFixers
                /\ reviewResponse' = IF spawn = "simple" THEN "fixing" ELSE "error"
                /\ UNCHANGED <<fixCycle, fixerSessions, reviewEscalations>>
    /\ fixCalls' = RemoveAt(fixCalls, i)
    /\ UNCHANGED <<phaseBranch, phaseStatus, reviewerSessions, chainIndex,
                   chainApprovals, mainMerges, lastMerge, phaseAdvances,
                   reviewDeliveries>>
    /\ UNCHANGED notReview

\* handleFixComplete up to its first await after getFixCycle: a fixer
\* reports; without a fix cycle the call returns, otherwise it goes on with
\* its copy of the cycle
FixComplete(status) ==
    /\ fixerSessions > 0
    /\ fixerSessions' = fixerSessions - 1
    /\ IF fixCycle = NoFixCycle
       THEN UNCHANGED fixCalls
       ELSE /\ Len(fixCalls) < MaxFixCalls
            /\ fixCalls' = Append(fixCalls,
                  [kind |-> "fix-complete", status |-> status, cycle |-> fixCycle])
    /\ UNCHANGED <<phaseBranch, phaseStatus, reviewerSessions, chainIndex,
                   chainApprovals, mainMerges, lastMerge, phaseAdvances,
                   fixCycle, simpleFixers, reviewEscalations, reviewResponse,
                   reviewDeliveries>>
    /\ UNCHANGED notReview

\* handleFixComplete from its copy of the cycle to its return: a failed fixer
\* escalates at the maximum or leaves the cycle pending-fix; a completed one
\* saves the cycle as pending-review and triggers the re-review
FixCompleteSaved(i, ok) ==
    /\ i <= Len(fixCalls)
    /\ fixCalls[i].kind = "fix-complete"
    /\ LET cycle == fixCalls[i].cycle
       IN  IF fixCalls[i].status = "failed"
           THEN /\ IF FixAttemptsExhausted(cycle)
                   THEN /\ reviewEscalations' = reviewEscalations + 1
                        /\ fixCycle' = [cycle EXCEPT !.status = "escalated"]
                   ELSE /\ fixCycle' = [cycle EXCEPT !.status = "pending-fix"]
                        /\ UNCHANGED reviewEscalations
                /\ UNCHANGED reviewerSessions
           ELSE /\ fixCycle' = [cycle EXCEPT !.status = "pending-review",
                                             !.reviewCount = @ + 1]
                /\ reviewerSessions' =
                      IF ok THEN SpawnReviewer(reviewerSessions, chainIndex)
                      ELSE reviewerSessions
                /\ UNCHANGED reviewEscalations
    /\ Len(reviewerSessions') <= MaxReviewerSessions
    /\ fixCalls' = RemoveAt(fixCalls, i)
    /\ UNCHANGED <<phaseBranch, phaseStatus, chainIndex, chainApprovals,
                   mainMerges, lastMerge, phaseAdvances, fixerSessions,
                   simpleFixers, reviewResponse, reviewDeliveries>>
    /\ UNCHANGED notReview

ReviewNext ==
    \/ MergePhaseWithReview
    \/ \E s \in 1..MaxReviewerSessions,
          status \in {"approved", "request_changes"},
          findings \in {0, 1}, ok \in BOOLEAN :
          ReviewResult(s, status, findings, ok)
    \/ \E s \in 1..MaxReviewerSessions, ok \in BOOLEAN :
          DuplicateReviewResult(s, ok)
    \/ \E i \in 1..MaxFixCalls, spawn \in {"fixer", "simple", "none"} :
          FixRequestSaved(i, spawn)
    \/ \E status \in {"completed", "failed"} : FixComplete(status)
    \/ \E i \in 1..MaxFixCalls, ok \in BOOLEAN : FixCompleteSaved(i, ok)

(***************************************************************************)
(* Part 5: read-modify-write of the JSON state files                       *)
(***************************************************************************)

Writers == 1..NumWriters

RetryKeys == 1..2

IdleWriter == [pc |-> "idle", key |-> 0, read |-> {}]

FilesInit ==
    /\ escalationsFile = {}
    /\ retryStateFile = [k \in RetryKeys |-> 0]
    /\ escWriters = [w \in Writers |-> IdleWriter]
    /\ retryWriters = [w \in Writers |-> IdleWriter]

\* createEscalation up to the end of `await readEscalations()`
CreateEscalationRead(w) ==
    /\ escWriters[w].pc = "idle"
    /\ escWriters' = [escWriters EXCEPT ![w] =
                        [pc |-> "read", key |-> w, read |-> escalationsFile]]
    /\ UNCHANGED <<escalationsFile, retryStateFile, retryWriters>>
    /\ UNCHANGED notFiles

\* createEscalation from the push to the end of `await writeEscalations()`
CreateEscalationWrite(w) ==
    /\ escWriters[w].pc = "read"
    /\ escalationsFile' = escWriters[w].read \cup {w}
    /\ escWriters' = [escWriters EXCEPT ![w].pc = "done"]
    /\ UNCHANGED <<retryStateFile, retryWriters>>
    /\ UNCHANGED notFiles

\* persistRetryState up to the end of `await readRetryStates()`
PersistRetryStateRead(w, k) ==
    /\ retryWriters[w].pc = "idle"
    /\ retryWriters' = [retryWriters EXCEPT ![w] =
                          [pc |-> "read", key |-> k, read |-> retryStateFile]]
    /\ UNCHANGED <<escalationsFile, retryStateFile, escWriters>>
    /\ UNCHANGED notFiles

\* persistRetryState: replaces or pushes its state in the array read, then
\* writes the array
PersistRetryStateWrite(w) ==
    /\ retryWriters[w].pc = "read"
    /\ retryStateFile' = [retryWriters[w].read EXCEPT ![retryWriters[w].key] = w]
    /\ retryWriters' = [retryWriters EXCEPT ![w].pc = "done"]
    /\ UNCHANGED <<escalationsFile, escWriters>>
    /\ UNCHANGED notFiles

FilesNext ==
    \/ \E w \in Writers : CreateEscalationRead(w)
    \/ \E w \in Writers : CreateEscalationWrite(w)
    \/ \E w \in Writers, k \in RetryKeys : PersistRetryStateRead(w, k)
    \/ \E w \in Writers : PersistRetryStateWrite(w)

(***************************************************************************)
(* Part 6: phase collector: initPhase and onWorkerComplete                 *)
(***************************************************************************)

PhaseWorkerIds == 1..NumPhaseWorkers

CollectorCallers == 1..2

NoPhaseFile == [status |-> "none"]

NoReturn == [phaseComplete |-> FALSE, allSucceeded |-> FALSE, returned |-> FALSE]

IdleCall == [pc |-> "idle", workerId |-> 0, status |-> "", state |-> 0,
             read |-> NoPhaseFile]

\* initPhase's worker list: every worker running
RunningWorkers == [w \in PhaseWorkerIds |-> "running"]

\* onWorkerComplete finds the worker by id and sets its status
MarkFirstRunningWorker(phaseWorkers, workerId, status) ==
    IF \E w \in PhaseWorkerIds : phaseWorkers[w] = "running"
    THEN LET first == CHOOSE w \in PhaseWorkerIds :
                         /\ phaseWorkers[w] = "running"
                         /\ \A v \in PhaseWorkerIds : phaseWorkers[v] = "running" => w <= v
         IN  [phaseWorkers EXCEPT ![first] = status]
    ELSE phaseWorkers

MarkWorker(phaseWorkers, workerId, status) ==
    [phaseWorkers EXCEPT ![workerId] = status]

\* onWorkerComplete's result: allDone and allSucceeded over the workers
PhaseResult(phaseWorkers) ==
    [phaseComplete |-> \A w \in PhaseWorkerIds : phaseWorkers[w] # "running",
     allSucceeded |-> \A w \in PhaseWorkerIds : phaseWorkers[w] = "completed",
     returned |-> TRUE]

CollectInit ==
    /\ phaseObjects = <<>>
    /\ activePhases = 0
    /\ phaseStateFile = NoPhaseFile
    /\ collectorCalls = [c \in CollectorCallers |-> IdleCall]
    /\ lastReturn = NoReturn
    /\ phaseCompleteReturned = FALSE
    /\ collectorCallCount = 0
    /\ restarts = 0

\* initPhase, called by the dispatcher when getPhaseState finds no state
InitPhase ==
    /\ activePhases = 0
    /\ phaseStateFile = NoPhaseFile
    /\ phaseObjects' = Append(phaseObjects, RunningWorkers)
    /\ activePhases' = Len(phaseObjects) + 1
    /\ phaseStateFile' = RunningWorkers
    /\ UNCHANGED <<collectorCalls, lastReturn, phaseCompleteReturned,
                   collectorCallCount, restarts>>
    /\ UNCHANGED notCollect

\* onWorkerComplete up to its first await: with the phase in memory the
\* worker is marked and savePhaseState is awaited; otherwise loadPhaseState
\* is awaited (a phase with no file throws)
OnWorkerCompleteBegin(c, workerId, status) ==
    /\ collectorCalls[c].pc = "idle"
    /\ collectorCallCount < MaxCollectorCalls
    /\ collectorCallCount' = collectorCallCount + 1
    /\ activePhases # 0 \/ phaseStateFile # NoPhaseFile
    /\ IF activePhases # 0
       THEN /\ phaseObjects' = [phaseObjects EXCEPT ![activePhases] =
                                   MarkWorker(@, workerId, status)]
            /\ collectorCalls' = [collectorCalls EXCEPT ![c] =
                  [pc |-> "saving", workerId |-> workerId, status |-> status,
                   state |-> activePhases, read |-> NoPhaseFile]]
       ELSE /\ collectorCalls' = [collectorCalls EXCEPT ![c] =
                  [pc |-> "loading", workerId |-> workerId, status |-> status,
                   state |-> 0, read |-> phaseStateFile]]
            /\ UNCHANGED phaseObjects
    /\ UNCHANGED <<activePhases, phaseStateFile, lastReturn,
                   phaseCompleteReturned, restarts>>
    /\ UNCHANGED notCollect

\* onWorkerComplete after loadPhaseState: the loaded state is put in the
\* map, the worker is marked and savePhaseState is awaited
OnWorkerCompleteLoaded(c) ==
    LET call == collectorCalls[c]
        object == Len(phaseObjects) + 1
    IN  /\ call.pc = "loading"
        /\ phaseObjects' = Append(phaseObjects,
                                  MarkWorker(call.read, call.workerId, call.status))
        /\ activePhases' = object
        /\ collectorCalls' = [collectorCalls EXCEPT ![c].pc = "saving",
                                                    ![c].state = object]
        /\ UNCHANGED <<phaseStateFile, lastReturn, phaseCompleteReturned,
                       collectorCallCount, restarts>>
        /\ UNCHANGED notCollect

\* onWorkerComplete after savePhaseState: the state object is in the file
\* and the result is computed over it
OnWorkerCompleteReturns(c) ==
    LET call == collectorCalls[c]
        result == PhaseResult(phaseObjects[call.state])
    IN  /\ call.pc = "saving"
        /\ phaseStateFile' = phaseObjects[call.state]
        /\ lastReturn' = result
        /\ phaseCompleteReturned' = (phaseCompleteReturned \/ result.phaseComplete)
        /\ collectorCalls' = [collectorCalls EXCEPT ![c] = IdleCall]
        /\ UNCHANGED <<phaseObjects, activePhases, collectorCallCount, restarts>>
        /\ UNCHANGED notCollect

\* the server process restarts: the activePhases map is empty, calls in
\* flight are gone, the state file stays
Restart ==
    /\ restarts < MaxRestarts
    /\ restarts' = restarts + 1
    /\ phaseObjects' = <<>>
    /\ activePhases' = 0
    /\ collectorCalls' = [c \in CollectorCallers |-> IdleCall]
    /\ UNCHANGED <<phaseStateFile, lastReturn, phaseCompleteReturned,
                   collectorCallCount>>
    /\ UNCHANGED notCollect

CollectNext ==
    \/ InitPhase
    \/ \E c \in CollectorCallers, workerId \in PhaseWorkerIds,
          status \in {"completed", "failed"} :
          OnWorkerCompleteBegin(c, workerId, status)
    \/ \E c \in CollectorCallers : OnWorkerCompleteLoaded(c)
    \/ \E c \in CollectorCallers : OnWorkerCompleteReturns(c)
    \/ Restart

(***************************************************************************)
(* Part 7: onWorkerComplete applied to one set of reports in two orders    *)
(***************************************************************************)

Reports == PhaseWorkerIds \X {"completed", "failed"}

\* sequences of distinct reports
ReportSeqs ==
    {q \in UNION {[1..n -> Reports] : n \in 1..MaxReports} :
        \A i, j \in DOMAIN q : q[i] = q[j] => i = j}

Range(q) == {q[i] : i \in DOMAIN q}

OrderInit ==
    /\ orderA = <<>>
    /\ orderB = <<>>
    /\ appliedA = 0
    /\ appliedB = 0
    /\ workersA = RunningWorkers
    /\ workersB = RunningWorkers
    /\ resultA = NoReturn
    /\ resultB = NoReturn

\* onWorkerComplete with the phase in memory, start to return
OnWorkerComplete(phaseWorkers, report) ==
    LET marked == MarkWorker(phaseWorkers, report[1], report[2])
    IN  [workers |-> marked, result |-> PhaseResult(marked)]

\* the reports of the phase, in the order they arrive in
ChooseReports(a) ==
    /\ orderA = <<>>
    /\ orderA' = a
    /\ UNCHANGED <<orderB, appliedA, appliedB, workersA, workersB, resultA,
                   resultB>>
    /\ UNCHANGED notOrder

\* another order of arrival of the same reports
ChooseOtherOrder(b) ==
    /\ orderA # <<>>
    /\ orderB = <<>>
    /\ Len(b) = Len(orderA)
    /\ Range(b) = Range(orderA)
    /\ orderB' = b
    /\ UNCHANGED <<orderA, appliedA, appliedB, workersA, workersB, resultA,
                   resultB>>
    /\ UNCHANGED notOrder

ApplyReportA ==
    LET out == OnWorkerComplete(workersA, orderA[appliedA + 1])
    IN  /\ appliedA < Len(orderA)
        /\ appliedA' = appliedA + 1
        /\ workersA' = out.workers
        /\ resultA' = out.result
        /\ UNCHANGED <<orderA, orderB, appliedB, workersB, resultB>>
        /\ UNCHANGED notOrder

ApplyReportB ==
    LET out == OnWorkerComplete(workersB, orderB[appliedB + 1])
    IN  /\ appliedB < Len(orderB)
        /\ appliedB' = appliedB + 1
        /\ workersB' = out.workers
        /\ resultB' = out.result
        /\ UNCHANGED <<orderA, orderB, appliedA, workersA, resultA>>
        /\ UNCHANGED notOrder

OrderNext ==
    \/ \E a \in ReportSeqs : ChooseReports(a)
    \/ \E b \in ReportSeqs : ChooseOtherOrder(b)
    \/ ApplyReportA
    \/ ApplyReportB

(***************************************************************************)
(* Part 8: the spawn of a task, step by step, on both dispatch paths       *)
(***************************************************************************)

SpawnInit ==
    /\ spawnRegistry = [t \in Tasks |-> "absent"]
    /\ spawnSteps = [t \in Tasks |-> "ready"]
    /\ gatewayCalls = [t \in Tasks |-> "none"]
    /\ gatewayAttempts = [t \in Tasks |-> 0]

\* orchestrate handler: wakeAgent for a task that passed filterSpawnableTasks
OrchestrateWakeAgent(t, ok) ==
    /\ spawnSteps[t] = "ready"
    /\ CanSpawnTask(spawnRegistry, t)
    /\ gatewayAttempts[t] < MaxSpawnAttempts
    /\ gatewayAttempts' = [gatewayAttempts EXCEPT ![t] = @ + 1]
    /\ gatewayCalls' = [gatewayCalls EXCEPT ![t] = spawnRegistry[t]]
    /\ spawnSteps' = [spawnSteps EXCEPT ![t] = IF ok THEN "woken" ELSE "wakeFailed"]
    /\ UNCHANGED spawnRegistry
    /\ UNCHANGED notSpawn

\* orchestrate handler: registerTask after wakeAgent returned
OrchestrateRegisterTask(t) ==
    /\ spawnSteps[t] = "woken"
    /\ spawnRegistry' = RegisterTask(spawnRegistry, t)
    /\ spawnSteps' = [spawnSteps EXCEPT ![t] = "spawned"]
    /\ UNCHANGED <<gatewayCalls, gatewayAttempts>>
    /\ UNCHANGED notSpawn

\* orchestrate handler: the catch branch, handleWorkerSpawnFailure; the
\* registry is not written
OrchestrateSpawnFailed(t) ==
    /\ spawnSteps[t] = "wakeFailed"
    /\ spawnSteps' = [spawnSteps EXCEPT ![t] = "ready"]
    /\ UNCHANGED <<spawnRegistry, gatewayCalls, gatewayAttempts>>
    /\ UNCHANGED notSpawn

\* triggerOrchestrator: registerTask for a task that passed filterSpawnableTasks
TriggerRegisterTask(t) ==
    /\ spawnSteps[t] = "ready"
    /\ CanSpawnTask(spawnRegistry, t)
    /\ gatewayAttempts[t] < MaxSpawnAttempts
    /\ spawnRegistry' = RegisterTask(spawnRegistry, t)
    /\ spawnSteps' = [spawnSteps EXCEPT ![t] = "registered"]
    /\ UNCHANGED <<gatewayCalls, gatewayAttempts>>
    /\ UNCHANGED notSpawn

\* triggerOrchestrator: spawnSession, and updateTaskStatus failed in the
\* catch branch
TriggerSpawnSession(t, ok) ==
    /\ spawnSteps[t] = "registered"
    /\ gatewayAttempts' = [gatewayAttempts EXCEPT ![t] = @ + 1]
    /\ gatewayCalls' = [gatewayCalls EXCEPT ![t] = spawnRegistry[t]]
    /\ IF ok
       THEN /\ spawnSteps' = [spawnSteps EXCEPT ![t] = "spawned"]
            /\ UNCHANGED spawnRegistry
       ELSE /\ spawnSteps' = [spawnSteps EXCEPT ![t] = "ready"]
            /\ spawnRegistry' = UpdateTaskStatus(spawnRegistry, t, "failed")
    /\ UNCHANGED notSpawn

SpawnNext ==
    \/ \E t \in Tasks, ok \in BOOLEAN : OrchestrateWakeAgent(t, ok)
    \/ \E t \in Tasks : OrchestrateRegisterTask(t)
    \/ \E t \in Tasks : OrchestrateSpawnFailed(t)
    \/ \E t \in Tasks : TriggerRegisterTask(t)
    \/ \E t \in Tasks, ok \in BOOLEAN : TriggerSpawnSession(t, ok)

(***************************************************************************)
(* Part 9: review state of a phase (review-state)                          *)
(***************************************************************************)

NoReviewState ==
    [status |-> "none", attempts |-> <<>>, currentReviewerSession |-> FALSE,
     currentFixerSession |-> FALSE]

ReviewDecisions == {"approve", "fix", "escalate"}

\* recordReviewDecision's switch
DecisionStatus(decision) ==
    IF decision = "approve" THEN "approved"
    ELSE IF decision = "fix" THEN "fixing" ELSE "escalated"

ReviewStateInit ==
    /\ reviewState = NoReviewState
    /\ activeReviews = FALSE

\* startReview: an active review is reset to pending, otherwise a new state
\* replaces what was saved
StartReview ==
    /\ reviewState' =
          IF activeReviews
          THEN [reviewState EXCEPT !.status = "pending",
                                   !.currentReviewerSession = TRUE,
                                   !.currentFixerSession = FALSE]
          ELSE [status |-> "pending", attempts |-> <<>>,
                currentReviewerSession |-> TRUE, currentFixerSession |-> FALSE]
    /\ activeReviews' = TRUE
    /\ UNCHANGED notReviewState

\* recordReviewDecision: pushes the attempt and sets the status of the decision
RecordReviewDecision(decision) ==
    /\ reviewState # NoReviewState
    /\ Len(reviewState.attempts) < MaxReviewAttempts
    /\ reviewState' = [reviewState EXCEPT
                          !.attempts = Append(@, decision),
                          !.currentReviewerSession = FALSE,
                          !.status = DecisionStatus(decision)]
    /\ activeReviews' = TRUE
    /\ UNCHANGED notReviewState

\* recordFixerSpawned
RecordFixerSpawned ==
    /\ reviewState # NoReviewState
    /\ reviewState' = [reviewState EXCEPT !.currentFixerSession = TRUE]
    /\ activeReviews' = TRUE
    /\ UNCHANGED notReviewState

\* onFixerComplete: pending after a successful fixer, escalated otherwise
OnFixerComplete(success) ==
    /\ reviewState # NoReviewState
    /\ reviewState' = [reviewState EXCEPT
                          !.currentFixerSession = FALSE,
                          !.status = IF success THEN "pending" ELSE "escalated"]
    /\ activeReviews' = TRUE
    /\ UNCHANGED notReviewState

\* markMerged: status merged, removed from the activeReviews map
MarkMerged ==
    /\ reviewState # NoReviewState
    /\ reviewState' = [reviewState EXCEPT !.status = "merged"]
    /\ activeReviews' = FALSE
    /\ UNCHANGED notReviewState

ReviewStateNext ==
    \/ StartReview
    \/ \E decision \in ReviewDecisions : RecordReviewDecision(decision)
    \/ RecordFixerSpawned
    \/ \E success \in BOOLEAN : OnFixerComplete(success)
    \/ MarkMerged

(***************************************************************************)
(* Part 10: mergeToMain on the repository                                  *)
(***************************************************************************)

MergeInit ==
    /\ checkedOut = "main"
    /\ heads = [b \in {"main", "feature", "phase"} |->
                  IF b = "phase" THEN 0 ELSE 1]
    /\ merging = FALSE
    /\ beforeMerge = [branch |-> "main", head |-> 1]
    /\ mergeOutcome = "none"

\* work on the repository between merges: a branch is checked out (the phase
\* branch once it exists, created by the collector) and may get a commit
WorkOnBranch(b, commits) ==
    /\ heads[b] + commits > 0
    /\ commits = 0 \/ heads[b] < MaxCommits
    /\ checkedOut' = b
    /\ heads' = [heads EXCEPT ![b] = @ + commits]
    /\ mergeOutcome' = "none"
    /\ UNCHANGED <<merging, beforeMerge>>
    /\ UNCHANGED notMerge

\* what mergeToMain does to the repository after a merge that did not
\* succeed: `git merge --abort`, then checkoutBranch(originalBranch)
AbortWithoutCheckout(repo, originalBranch) ==
    [repo EXCEPT !.merging = FALSE]

RestoreAfterFailedMerge(repo, originalBranch) ==
    [repo EXCEPT !.merging = FALSE, !.checkedOut = originalBranch]

\* mergeToMain: remembers the current branch; without the phase branch or
\* when main cannot be checked out, returns; otherwise merges the phase
\* branch into main. mergeResult: merged, conflict (the merge is or is not
\* left in progress by mergeBranch), error, or an exception thrown
MergeToMain(checkoutOk, mergeResult, leftMerging) ==
    LET originalBranch == checkedOut
        onMain == [checkedOut |-> "main", merging |-> leftMerging]
        restored == RestoreAfterFailedMerge(onMain, originalBranch)
    IN  /\ beforeMerge' = [branch |-> checkedOut, head |-> heads[checkedOut]]
        /\ IF heads["phase"] = 0
           THEN /\ mergeOutcome' = "no-phase-branch"
                /\ UNCHANGED <<checkedOut, heads, merging>>
           ELSE IF ~checkoutOk
           THEN /\ mergeOutcome' = "checkout-failed"
                /\ UNCHANGED <<checkedOut, heads, merging>>
           ELSE IF mergeResult = "merged"
           THEN /\ heads["main"] <= MaxCommits
                /\ heads' = [heads EXCEPT !["main"] = @ + 1]
                /\ checkedOut' = "main"
                /\ merging' = FALSE
                /\ mergeOutcome' = "merged"
           ELSE /\ checkedOut' = restored.checkedOut
                /\ merging' = restored.merging
                /\ mergeOutcome' = mergeResult
                /\ UNCHANGED heads
        /\ UNCHANGED notMerge

MergeNext ==
    \/ \E b \in {"main", "feature", "phase"}, commits \in {0, 1} :
          WorkOnBranch(b, commits)
    \/ \E checkoutOk \in BOOLEAN,
          mergeResult \in {"merged", "conflict", "error", "exception"},
          leftMerging \in BOOLEAN :
          MergeToMain(checkoutOk, mergeResult, leftMerging)

(***************************************************************************)
(* Part 11: retry handler (role-loader.ts): one key's RetryState under a   *)
(* policy, recordAttempt and the backoff delay                             *)
(***************************************************************************)

\* DEFAULT_RETRY_POLICY
DefaultRetryPolicy ==
    [maxAttempts |-> DefaultMaxAttempts, baseDelayMs |-> 5000,
     maxDelayMs |-> 60000, backoffMultiplier |-> 2]

\* RetryPolicy values passed to initRetryState: the default delays and three
\* others, each with every maxAttempts up to the cap.
Policies ==
    {[maxAttempts |-> k, baseDelayMs |-> p[1], maxDelayMs |-> p[2],
      backoffMultiplier |-> p[3]] :
        k \in 1..MaxPolicyAttempts,
        p \in {<<5000, 60000, 2>>, <<5, 40, 3>>, <<1000, 1500, 2>>, <<7, 100, 1>>}}

\* Values of Math.random(), in thousandths: [0, 1)
RandomSamples == {0, 1, 500, 999}

\* Values of Date.now()
Times == {0, 1}

\* nextRetryAt: undefined
Unset == -1

\* no RetryState under the key
NoPolicyState ==
    [attempts |-> <<>>, policy |-> DefaultRetryPolicy, status |-> "absent",
     nextRetryAt |-> Unset]

\* Math.pow for a natural exponent
RECURSIVE Pow(_, _)
Pow(m, n) == IF n = 0 THEN 1 ELSE m * Pow(m, n - 1)

\* calculateRetryDelay: delay = baseDelayMs * backoffMultiplier ^ attempts.length,
\* jitter = delay * 0.1 * (random * 2 - 1), result min(floor(delay + jitter),
\* maxDelayMs).  delay + jitter = delay * (9000 + 2 * rnd) / 10000.
CalculateRetryDelayUncapped(state, rnd) ==
    LET attemptNumber == Len(state.attempts)
        delay == state.policy.baseDelayMs
                    * Pow(state.policy.backoffMultiplier, attemptNumber)
    IN  (delay * (9000 + 2 * rnd)) \div 10000

CalculateRetryDelay(state, rnd) ==
    LET attemptNumber == Len(state.attempts)
        delay == state.policy.baseDelayMs
                    * Pow(state.policy.backoffMultiplier, attemptNumber)
        floored == (delay * (9000 + 2 * rnd)) \div 10000
    IN  IF floored < state.policy.maxDelayMs THEN floored
        ELSE state.policy.maxDelayMs

\* initRetryState: the policy given over the default one, no attempts
InitRetryState(policy) ==
    [attempts |-> <<>>, policy |-> policy, status |-> "pending",
     nextRetryAt |-> Unset]

\* recordAttempt's test for exhaustion: attempts.length >= policy.maxAttempts
ExhaustedAfterMaxAttempts(att, policy) ==
    Len(att) > policy.maxAttempts

IsExhausted(att, policy) ==
    Len(att) >= policy.maxAttempts

\* recordAttempt on the state found (initialised with the default policy
\* when there is none)
RecordAttemptOn(found, success, now, rnd) ==
    LET state == IF found.status = "absent"
                 THEN InitRetryState(DefaultRetryPolicy) ELSE found
        pushed == [state EXCEPT !.attempts = Append(@, success)]
    IN  IF success
        THEN [pushed EXCEPT !.status = "succeeded", !.nextRetryAt = Unset]
        ELSE IF IsExhausted(pushed.attempts, pushed.policy)
        THEN [pushed EXCEPT !.status = "exhausted", !.nextRetryAt = Unset]
        ELSE [pushed EXCEPT !.status = "retrying",
                            !.nextRetryAt = now + CalculateRetryDelay(pushed, rnd)]

RetryInit ==
    /\ policyState = NoPolicyState
    /\ retryDelayMs = -1

\* initRetryState({runId, stepOrder, policy})
InitRetryStateCall(policy) ==
    /\ policyState' = InitRetryState(policy)
    /\ retryDelayMs' = -1
    /\ UNCHANGED notRetry

\* recordAttempt({runId, stepOrder, success})
RecordAttemptCall(success, now, rnd) ==
    /\ Len(policyState.attempts) <= MaxPolicyAttempts
    /\ policyState' = RecordAttemptOn(policyState, success, now, rnd)
    /\ retryDelayMs' = IF policyState'.status = "retrying"
                       THEN policyState'.nextRetryAt - now ELSE -1
    /\ UNCHANGED notRetry

\* clearRetryState(runId, stepOrder)
ClearRetryState ==
    /\ policyState # NoPolicyState
    /\ policyState' = NoPolicyState
    /\ retryDelayMs' = -1
    /\ UNCHANGED notRetry

RetryNext ==
    \/ \E policy \in Policies : InitRetryStateCall(policy)
    \/ \E success \in BOOLEAN, now \in Times, rnd \in RandomSamples :
          RecordAttemptCall(success, now, rnd)
    \/ ClearRetryState

(***************************************************************************)
(* Part 12: phase collector: the status of one phase under initPhase,      *)
(* onWorkerComplete, collectPhaseBranches, completePhase and failPhase     *)
(***************************************************************************)

NoPhase == [status |-> "none", workers |-> [w \in PhaseWorkerIds |-> "none"]]

\* activePhases.get(key), else loadPhaseState
FoundPhase == IF phaseInMap # NoPhase THEN phaseInMap ELSE phaseOnDisk

PhaseStatusInit ==
    /\ phaseInMap = NoPhase
    /\ phaseOnDisk = NoPhase
    /\ lastCollectorCall = "none"

\* initPhase, called by the dispatcher when getPhaseState finds no state
InitPhaseState ==
    /\ FoundPhase = NoPhase
    /\ phaseInMap' = [status |-> "running", workers |-> RunningWorkers]
    /\ phaseOnDisk' = phaseInMap'
    /\ lastCollectorCall' = "initPhase"
    /\ UNCHANGED notPhaseStatus

\* onWorkerComplete: the state is put in the map if it was loaded, the
\* worker is marked and the state is saved
WorkerCompletes(workerId, status) ==
    /\ FoundPhase # NoPhase
    /\ phaseInMap' = [FoundPhase EXCEPT !.workers = MarkWorker(@, workerId, status)]
    /\ phaseOnDisk' = phaseInMap'
    /\ lastCollectorCall' = "onWorkerComplete"
    /\ UNCHANGED notPhaseStatus

\* collectPhaseBranches: returns early on a failed or running worker; else
\* the status is collecting; with no branch to collect the phase is
\* completed and saved; a failed createBranch returns before the save
CollectPhaseBranches(branches, createOk) ==
    LET state == FoundPhase
    IN  /\ state # NoPhase
        /\ lastCollectorCall' = "collectPhaseBranches"
        /\ IF \E w \in PhaseWorkerIds : state.workers[w] # "completed"
           THEN /\ phaseInMap' = state
                /\ UNCHANGED phaseOnDisk
           ELSE IF branches = 0
           THEN /\ phaseInMap' = [state EXCEPT !.status = "completed"]
                /\ phaseOnDisk' = phaseInMap'
           ELSE /\ phaseInMap' = [state EXCEPT !.status = "collecting"]
                /\ phaseOnDisk' = IF createOk THEN phaseInMap' ELSE phaseOnDisk
        /\ UNCHANGED notPhaseStatus

\* completePhase: the status is completed, the state is saved and the key
\* is deleted from activePhases
CompletePhase ==
    /\ FoundPhase # NoPhase
    /\ phaseOnDisk' = [FoundPhase EXCEPT !.status = "completed"]
    /\ phaseInMap' = NoPhase
    /\ lastCollectorCall' = "completePhase"
    /\ UNCHANGED notPhaseStatus

\* failPhase: the status is failed and the state is saved
FailPhase ==
    /\ FoundPhase # NoPhase
    /\ phaseOnDisk' = [FoundPhase EXCEPT !.status = "failed"]
    /\ phaseInMap' = IF phaseInMap # NoPhase THEN phaseOnDisk' ELSE NoPhase
    /\ lastCollectorCall' = "failPhase"
    /\ UNCHANGED notPhaseStatus

\* the server process restarts: activePhases is empty, the file stays
CollectorRestarts ==
    /\ phaseInMap # NoPhase
    /\ phaseInMap' = NoPhase
    /\ lastCollectorCall' = "none"
    /\ UNCHANGED phaseOnDisk
    /\ UNCHANGED notPhaseStatus

PhaseStatusNext ==
    \/ InitPhaseState
    \/ \E workerId \in PhaseWorkerIds, status \in {"completed", "failed"} :
          WorkerCompletes(workerId, status)
    \/ \E branches \in 0..NumPhaseWorkers, createOk \in BOOLEAN :
          CollectPhaseBranches(branches, createOk)
    \/ CompletePhase
    \/ FailPhase
    \/ CollectorRestarts

(***************************************************************************)
(* Part 13: project phase advancement (phase watcher, progress watchdog,   *)
(* spec file watcher) and the trigger cooldown of triggerPhaseWork         *)
(***************************************************************************)

\* PHASE_WORK_COOLDOWN_MS
PhaseWorkCooldownMs == 30000
\* SPEC_PHASE_COOLDOWN_MS
SpecPhaseCooldownMs == 300000
\* checkNeedsWork: a spec spawn event of the last ten minutes
RecentSpawnMs == 600000

WorkPhases == {"spec", "build", "review", "complete"}

\* activePhaseWork.get(key): undefined
Never == 0

\* Clock advances between calls
TickSizes == {1, 29999, 300000}

\* the cooldown of a phase in triggerPhaseWork
CooldownOfBuildForAll(phase) ==
    PhaseWorkCooldownMs

CooldownMs(phase) ==
    IF phase = "spec" THEN SpecPhaseCooldownMs ELSE PhaseWorkCooldownMs

\* updateProjectPhase
UpdateProjectPhase(newPhase, newStatus) ==
    [phase |-> newPhase, status |-> newStatus]

\* checkProjectPhaseAdvancement of the phase watcher: the next phase, or none
CheckProjectPhaseAdvancement(state, f) ==
    IF state.phase = "complete" \/ state.status \notin {"running", "pending"}
    THEN "none"
    ELSE CASE state.phase = "interview" -> IF f.interview THEN "spec" ELSE "none"
           [] state.phase = "spec" ->
                 IF f.plan # "none" /\ f.ids THEN "build" ELSE "none"
           [] state.phase = "build" -> IF f.ids /\ f.allDone THEN "review" ELSE "none"
           [] state.phase = "review" -> IF f.ids /\ f.allDone THEN "complete" ELSE "none"
           [] OTHER -> "none"

\* checkAndAdvancePhase of auto-advance: the state after the call
CheckAndAdvancePhase(state, f) ==
    CASE state.phase = "interview" /\ f.interview -> UpdateProjectPhase("spec", "running")
      [] state.phase = "spec" /\ f.plan # "none" -> UpdateProjectPhase("build", "running")
      [] state.phase = "build" /\ f.ids /\ f.allDone -> UpdateProjectPhase("review", "running")
      [] state.phase = "review" /\ f.ids /\ f.allDone ->
            UpdateProjectPhase("complete", "completed")
      [] OTHER -> state

\* triggerPhaseWork for a phase other than build: the cooldown test, the
\* mark, and the spawn of the spec agent or of the review chain
TriggerAgent(w, phase, spawned) ==
    LET lastTriggered == w.work[phase]
    IN  IF lastTriggered # Never /\ nowMs - lastTriggered < CooldownMs(phase)
        THEN [w EXCEPT !.last = [phase |-> phase, at |-> nowMs, result |-> "skipped"]]
        ELSE [w EXCEPT
                !.work[phase] = nowMs,
                !.log = Append(@, [phase |-> phase, at |-> nowMs,
                                   spawned |-> spawned /\ phase \in {"spec", "review"}]),
                !.last = [phase |-> phase, at |-> nowMs, result |-> "started"]]

\* triggerPhaseWork: for build, triggerOrchestrator spawns workers when
\* tasks are ready; with none ready and all done it calls
\* checkAndAdvancePhase and triggers the work of the new phase
TriggerPhaseWork(w, phase, spawned) ==
    LET lastTriggered == w.work[phase]
        ready == projFiles.ids /\ ~projFiles.allDone
        marked == [w EXCEPT
                     !.work[phase] = nowMs,
                     !.log = Append(@, [phase |-> phase, at |-> nowMs,
                                        spawned |-> spawned /\ ready]),
                     !.last = [phase |-> phase, at |-> nowMs, result |-> "started"]]
        advanced == CheckAndAdvancePhase(marked.proj, projFiles)
    IN  IF phase # "build" THEN TriggerAgent(w, phase, spawned)
        ELSE IF lastTriggered # Never /\ nowMs - lastTriggered < CooldownMs(phase)
        THEN [w EXCEPT !.last = [phase |-> phase, at |-> nowMs, result |-> "skipped"]]
        ELSE IF ready \/ advanced = marked.proj
        THEN marked
        ELSE TriggerAgent([marked EXCEPT !.proj = advanced], advanced.phase, spawned)

\* checkNeedsWork of the phase watcher
CheckNeedsWork(state, f) ==
    /\ state.status = "running"
    /\ \/ state.phase = "build" /\ f.ids /\ ~f.allDone
       \/ /\ state.phase = "spec"
          /\ f.plan = "none"
          /\ ~\E i \in 1..Len(phaseWorkLog) :
                /\ phaseWorkLog[i].phase = "spec"
                /\ phaseWorkLog[i].spawned
                /\ phaseWorkLog[i].at >= nowMs - RecentSpawnMs

AdvanceWorld ==
    [proj |-> projState, work |-> activePhaseWork, log |-> phaseWorkLog,
     last |-> lastTrigger]

CommitAdvance(w) ==
    /\ Len(w.log) <= MaxPhaseWorkStarts
    /\ projState' = w.proj
    /\ activePhaseWork' = w.work
    /\ phaseWorkLog' = w.log
    /\ lastTrigger' = w.last

AdvanceInit ==
    /\ projState = [phase |-> "interview", status |-> "pending"]
    /\ projFiles = [interview |-> FALSE, plan |-> "none", ids |-> FALSE,
                    marks |-> FALSE, allDone |-> FALSE]
    /\ activePhaseWork = [p \in WorkPhases |-> Never]
    /\ nowMs = 1
    /\ ticks = 0
    /\ phaseWorkLog = <<>>
    /\ lastTrigger = [phase |-> "none", at |-> 0, result |-> "none"]
    /\ triggeredProjects = FALSE

\* time passes
Tick(d) ==
    /\ ticks < MaxTicks
    /\ ticks' = ticks + 1
    /\ nowMs' = nowMs + d
    /\ UNCHANGED <<projState, projFiles, activePhaseWork, phaseWorkLog,
                   lastTrigger, triggeredProjects>>
    /\ UNCHANGED notAdvance

\* the interview is marked complete in interview.json
InterviewCompletes ==
    /\ projState.phase = "interview"
    /\ ~projFiles.interview
    /\ projFiles' = [projFiles EXCEPT !.interview = TRUE]
    /\ UNCHANGED <<projState, activePhaseWork, nowMs, ticks, phaseWorkLog,
                   lastTrigger, triggeredProjects>>
    /\ UNCHANGED notAdvance

\* the spec agent writes specs/IMPLEMENTATION_PLAN.md (short: at most 100
\* characters) or progress.md (with or without @id annotations)
SpecAgentWrites(plan, ids, marks) ==
    /\ projState.phase = "spec"
    /\ plan # "none" \/ marks
    /\ ids => marks
    /\ projFiles' = [projFiles EXCEPT !.plan = plan, !.ids = ids, !.marks = marks]
    /\ UNCHANGED <<projState, activePhaseWork, nowMs, ticks, phaseWorkLog,
                   lastTrigger, triggeredProjects>>
    /\ UNCHANGED notAdvance

\* the workers check off every task of progress.md
TasksAllDone ==
    /\ projState.phase \in {"build", "review"}
    /\ projFiles.ids
    /\ ~projFiles.allDone
    /\ projFiles' = [projFiles EXCEPT !.allDone = TRUE]
    /\ UNCHANGED <<projState, activePhaseWork, nowMs, ticks, phaseWorkLog,
                   lastTrigger, triggeredProjects>>
    /\ UNCHANGED notAdvance

\* pollProjects of the phase watcher for the project
PhaseWatcherPolls(spawned) ==
    LET nextPhase == CheckProjectPhaseAdvancement(projState, projFiles)
    IN  /\ IF nextPhase # "none"
           THEN CommitAdvance(
                   TriggerPhaseWork(
                      [AdvanceWorld EXCEPT !.proj = UpdateProjectPhase(nextPhase, "running")],
                      nextPhase, spawned))
           ELSE /\ CheckNeedsWork(projState, projFiles)
                /\ CommitAdvance(TriggerPhaseWork(AdvanceWorld, projState.phase, spawned))
        /\ UNCHANGED <<projFiles, nowMs, ticks, triggeredProjects>>
        /\ UNCHANGED notAdvance

\* recoverStalledProject of the progress watchdog up to its return after an
\* advance: checkAndAdvancePhase, then triggerPhaseWork for the new phase
WatchdogRecovers(spawned) ==
    LET advanced == CheckAndAdvancePhase(projState, projFiles)
    IN  /\ projState.phase \in {"build", "review", "spec"}
        /\ projState.status \in {"running", "ready"}
        /\ advanced # projState
        /\ CommitAdvance(
              TriggerPhaseWork([AdvanceWorld EXCEPT !.proj = advanced],
                               advanced.phase, spawned))
        /\ UNCHANGED <<projFiles, nowMs, ticks, triggeredProjects>>
        /\ UNCHANGED notAdvance

\* POST spec-complete: advances the project from spec to build
SpecCompleteEndpoint(state) ==
    IF state.phase = "spec" THEN UpdateProjectPhase("build", "running") ELSE state

\* triggerBuildPhase of the spec file watcher, after the debounce timer:
\* with the project in spec and a plan of more than 100 characters or task
\* markers in progress.md it posts spec-complete; a failed request takes the
\* project out of triggeredProjects again
SpecWatcherTriggers(ok) ==
    /\ ~triggeredProjects
    /\ projState.phase = "spec"
    /\ projFiles.plan = "long" \/ projFiles.marks
    /\ triggeredProjects' = ok
    /\ projState' = IF ok THEN SpecCompleteEndpoint(projState) ELSE projState
    /\ UNCHANGED <<projFiles, activePhaseWork, nowMs, ticks, phaseWorkLog, lastTrigger>>
    /\ UNCHANGED notAdvance

AdvanceNext ==
    \/ \E d \in TickSizes : Tick(d)
    \/ InterviewCompletes
    \/ \E plan \in {"none", "short", "long"}, ids \in BOOLEAN, marks \in BOOLEAN :
          SpecAgentWrites(plan, ids, marks)
    \/ TasksAllDone
    \/ \E spawned \in BOOLEAN : PhaseWatcherPolls(spawned)
    \/ \E spawned \in BOOLEAN : WatchdogRecovers(spawned)
    \/ \E ok \in BOOLEAN : SpecWatcherTriggers(ok)

(***************************************************************************)
(* Part 14: progress watchdog: recoverStalledProject's retry of the first  *)
(* incomplete task, counted by the watchdog-retry events of activity.jsonl *)
(***************************************************************************)

\* MAX_TASK_RETRIES
MaxTaskRetries == 3

WatchdogTasks == 1..NumWatchdogTasks

WatchdogInit ==
    /\ incompleteTasks = WatchdogTasks
    /\ watchdogRetries = [t \in WatchdogTasks |-> 0]
    /\ watchdogEscalates = [t \in WatchdogTasks |-> 0]
    /\ orchestrateRetries = [t \in WatchdogTasks |-> 0]
    /\ watchdogRuns = 0
    /\ watchdogStatus = "none"

\* recoverStalledProject for a stalled project whose phase does not advance:
\* without incomplete tasks a watchdog-check event is logged; else the first
\* incomplete task is taken, and with getTaskRetryCount at the cap a
\* watchdog-escalate event is logged, else a watchdog-retry event is logged
\* and the orchestrate endpoint is called (ok: it answers with success)
RecoverStalledProject(ok) ==
    /\ watchdogRuns < MaxWatchdogRuns
    /\ watchdogRuns' = watchdogRuns + 1
    /\ IF incompleteTasks = {}
       THEN /\ watchdogStatus' = "escalated"
            /\ UNCHANGED <<watchdogRetries, watchdogEscalates, orchestrateRetries>>
       ELSE LET taskToRetry == CHOOSE t \in incompleteTasks :
                                  \A u \in incompleteTasks : t <= u
                retryCount == watchdogRetries[taskToRetry]
            IN  IF retryCount >= MaxTaskRetries
                THEN /\ watchdogEscalates' =
                          [watchdogEscalates EXCEPT ![taskToRetry] = @ + 1]
                     /\ watchdogStatus' = "escalated"
                     /\ UNCHANGED <<watchdogRetries, orchestrateRetries>>
                ELSE /\ watchdogRetries' =
                          [watchdogRetries EXCEPT ![taskToRetry] = @ + 1]
                     /\ orchestrateRetries' =
                          [orchestrateRetries EXCEPT ![taskToRetry] = @ + 1]
                     /\ watchdogStatus' = IF ok THEN "recovered" ELSE "escalated"
                     /\ UNCHANGED watchdogEscalates
    /\ UNCHANGED incompleteTasks
    /\ UNCHANGED notWatchdog

\* a worker checks the task off in progress.md
WatchdogTaskDone(t) ==
    /\ t \in incompleteTasks
    /\ incompleteTasks' = incompleteTasks \ {t}
    /\ UNCHANGED <<watchdogRetries, watchdogEscalates, orchestrateRetries,
                   watchdogRuns, watchdogStatus>>
    /\ UNCHANGED notWatchdog

WatchdogNext ==
    \/ \E ok \in BOOLEAN : RecoverStalledProject(ok)
    \/ \E t \in WatchdogTasks : WatchdogTaskDone(t)

(***************************************************************************)
(* Part 15: phase state derivation: parsePhases and getPhaseReadyTasks     *)
(* applied to progress.md documents with any grouping of three tasks into  *)
(* phases and any acyclic dependencies                                     *)
(***************************************************************************)

DocTasks == {"a", "b", "c"}

DocPhaseNumbers == 1..NumDocPhases

\* no task graph parsed yet
NoGraph == {"none"}

\* the dependency relation has no cycle (three tasks: no path of length
\* one, two or three from a task to itself)
Acyclic(deps) ==
    \A t \in DocTasks :
        /\ t \notin deps[t]
        /\ \A u \in deps[t] : t \notin deps[u]
        /\ \A u \in deps[t] : \A w \in deps[u] : t \notin deps[w]

\* the tasks parsePhases collects under the header of phase p
DocPhaseTasks(phaseOf, p) == {t \in DocTasks : phaseOf[t] = p}

\* parsePhases, the status loop: completed when the phase has tasks and all
\* are done; running when it has a task not done and is the first phase or
\* every earlier phase is completed; otherwise the initial pending
RECURSIVE DocPhaseStatus(_, _, _)
DocPhaseStatus(phaseOf, done, p) ==
    LET tasks == DocPhaseTasks(phaseOf, p)
        allDone == tasks # {} /\ tasks \subseteq done
        anyRunning == tasks \ done # {}
    IN  IF allDone THEN "completed"
        ELSE IF anyRunning /\ p = 1 THEN "running"
        ELSE IF /\ \A q \in 1..(p - 1) : DocPhaseStatus(phaseOf, done, q) = "completed"
                /\ anyRunning
        THEN "running"
        ELSE "pending"

\* getPhaseReadyTasks
DocPhaseReadyTasks(phaseOf, deps, done, p) ==
    {t \in DocPhaseTasks(phaseOf, p) : t \notin done /\ deps[t] \subseteq done}

PhasesInit ==
    /\ docPhase = [t \in DocTasks |-> IF t = "c" THEN 2 ELSE 1]
    /\ docDepends = [t \in DocTasks |-> {}]
    /\ docDone = {}
    /\ graphDone = NoGraph
    /\ phaseInfos = [p \in DocPhaseNumbers |-> "none"]

\* the spec agent writes progress.md: the task lines under their phase
\* headers, with their dependencies, none checked off
WriteProgress(phaseOf, deps) ==
    /\ Acyclic(deps)
    /\ docDone = {}
    /\ graphDone = NoGraph
    /\ docPhase' = phaseOf
    /\ docDepends' = deps
    /\ UNCHANGED <<docDone, graphDone, phaseInfos>>
    /\ UNCHANGED notPhases

\* an orchestrate request reads progress.md, parses the task graph and
\* derives the phases
DerivePhases ==
    /\ graphDone' = docDone
    /\ phaseInfos' = [p \in DocPhaseNumbers |-> DocPhaseStatus(docPhase, docDone, p)]
    /\ UNCHANGED <<docPhase, docDepends, docDone>>
    /\ UNCHANGED notPhases

\* a task line is checked off in progress.md
DocTaskDone(t) ==
    /\ t \notin docDone
    /\ docDone' = docDone \cup {t}
    /\ UNCHANGED <<docPhase, docDepends, graphDone, phaseInfos>>
    /\ UNCHANGED notPhases

PhasesNext ==
    \/ \E phaseOf \in [DocTasks -> DocPhaseNumbers],
          deps \in [DocTasks -> SUBSET DocTasks] : WriteProgress(phaseOf, deps)
    \/ DerivePhases
    \/ \E t \in DocTasks : DocTaskDone(t)

(***************************************************************************)
(* Part 16: work ledger with failing appends: an appendRecord that throws  *)
(* rejects the operation at that await                                     *)
(***************************************************************************)

LedgerFaultsInit ==
    appendFailures = 0

\* create whose appendRecord throws.  at = 1: the append of the create
\* record fails, nothing was cached.  at = 2: the create record is appended
\* and the item cached, the id is pushed on the cached parent's childIds,
\* then the append of the parent's update record fails.
CreateAppendFails(parentId, at) ==
    LET id == Cardinality({x \in ItemIds : cache[x] # NoItem}) + 1
        now == Now(0)
        item == [status |-> "pending", parentId |-> parentId, childIds |-> <<>>,
                 iterations |-> 0, output |-> 0, error |-> "",
                 createdAt |-> now, updatedAt |-> now, startedAt |-> 0,
                 completedAt |-> 0,
                 events |-> <<[timestamp |-> now, type |-> "created",
                               from |-> "", to |-> ""]>>]
        created == [recordType |-> "create", workId |-> id, item |-> item]
        hasParent == parentId # 0 /\ cache[parentId] # NoItem
    IN  /\ id \in ItemIds
        /\ parentId \in ItemIds \cup {0}
        /\ appendFailures < MaxAppendFailures
        /\ appendFailures' = appendFailures + 1
        /\ IF at = 1
           THEN UNCHANGED <<cache, ledgerFile>>
           ELSE /\ hasParent
                /\ cache' = [cache EXCEPT
                               ![id] = item,
                               ![parentId].childIds = Append(@, id)]
                /\ ledgerFile' = Append(ledgerFile, created)
        /\ Len(ledgerFile') <= MaxRecords
        /\ UNCHANGED clock
        /\ UNCHANGED notLedgerFaults

\* appendEvent whose appendRecord throws: the cached item is not reached
AppendEventAppendFails(id) ==
    /\ cache[id] # NoItem
    /\ appendFailures < MaxAppendFailures
    /\ appendFailures' = appendFailures + 1
    /\ UNCHANGED <<cache, ledgerFile, clock>>
    /\ UNCHANGED notLedgerFaults

\* updateStatus whose appendRecord throws.  at = 1: the append of the status
\* record fails.  at = 2: the status record is appended, the append of the
\* status_change event record fails.  The cached item is not reached.
UpdateStatusAppendFails(id, newStatus, error, at) ==
    LET now == Now(0)
        item == cache[id]
    IN  /\ item # NoItem
        /\ ValidTransition(item.status, newStatus)
        /\ appendFailures < MaxAppendFailures
        /\ appendFailures' = appendFailures + 1
        /\ ledgerFile' =
              IF at = 1 THEN ledgerFile
              ELSE Append(ledgerFile,
                          [recordType |-> "status", workId |-> id,
                           status |-> newStatus, timestamp |-> now,
                           error |-> error])
        /\ Len(ledgerFile') <= MaxRecords
        /\ UNCHANGED <<cache, clock>>
        /\ UNCHANGED notLedgerFaults

LedgerFaultsNext ==
    \/ LedgerNext
    \/ \E parentId \in ItemIds \cup {0}, at \in {1, 2} :
          CreateAppendFails(parentId, at)
    \/ \E id \in ItemIds : AppendEventAppendFails(id)
    \/ \E id \in ItemIds, newStatus \in {"running", "complete", "failed"},
          error \in {"", "boom"}, at \in {1, 2} :
          UpdateStatusAppendFails(id, newStatus, error, at)

(***************************************************************************)
(* Part 17: the workers a phase state tracks: the orchestrate handler's    *)
(* initPhase with the tasks ready at that time, and onWorkerComplete       *)
(***************************************************************************)

\* no phase state for the phase
NoWorkers == [t \in DocTasks |-> "none"]

NoCollectReturn == [phase |-> 0, phaseComplete |-> FALSE, found |-> FALSE]

TrackInit ==
    /\ trackedWorkers = [p \in DocPhaseNumbers |-> NoWorkers]
    /\ liveWorkers = {}
    /\ collectReturn = NoCollectReturn

\* progress.md is written before the run starts
PlanProgress(phaseOf, deps) ==
    /\ liveWorkers = {}
    /\ \A p \in DocPhaseNumbers : trackedWorkers[p] = NoWorkers
    /\ WriteProgress(phaseOf, deps)

\* the orchestrate handler: derives the phases, takes the first phase that
\* is not completed and its ready tasks, returns when there is none, calls
\* initPhase with the ready tasks as workers when the phase has no state,
\* and spawns the ready tasks that the task registry does not hold as running
OrchestrateTracked ==
    LET open == {p \in DocPhaseNumbers :
                    DocPhaseStatus(docPhase, docDone, p) # "completed"}
        currentPhase == CHOOSE p \in open : \A q \in open : p <= q
        readyTasks == DocPhaseReadyTasks(docPhase, docDepends, docDone, currentPhase)
    IN  /\ open # {}
        /\ readyTasks \ liveWorkers # {}
        /\ trackedWorkers' =
              IF trackedWorkers[currentPhase] = NoWorkers
              THEN [trackedWorkers EXCEPT ![currentPhase] =
                      [t \in DocTasks |-> IF t \in readyTasks THEN "running"
                                          ELSE "none"]]
              ELSE trackedWorkers
        /\ liveWorkers' = liveWorkers \cup readyTasks
        /\ UNCHANGED <<collectReturn, phasesVars>>
        /\ UNCHANGED notTrack

\* a worker finishes its task: a completed task is checked off in
\* progress.md, and onWorkerComplete is called for the phase of the task:
\* it throws when the phase state does not list the worker, else it sets
\* the worker's status and returns phaseComplete when no worker is running
TrackedWorkerCompletes(t, status) ==
    LET p == docPhase[t]
        marked == [trackedWorkers[p] EXCEPT ![t] = status]
    IN  /\ t \in liveWorkers
        /\ liveWorkers' = liveWorkers \ {t}
        /\ docDone' = IF status = "completed" THEN docDone \cup {t} ELSE docDone
        /\ IF trackedWorkers[p][t] = "none"
           THEN /\ collectReturn' = [phase |-> p, phaseComplete |-> FALSE,
                                     found |-> FALSE]
                /\ UNCHANGED trackedWorkers
           ELSE /\ trackedWorkers' = [trackedWorkers EXCEPT ![p] = marked]
                /\ collectReturn' =
                      [phase |-> p,
                       phaseComplete |-> \A u \in DocTasks : marked[u] # "running",
                       found |-> TRUE]
        /\ UNCHANGED <<docPhase, docDepends, graphDone, phaseInfos>>
        /\ UNCHANGED notTrack

TrackNext ==
    \/ \E phaseOf \in [DocTasks -> DocPhaseNumbers],
          deps \in [DocTasks -> SUBSET DocTasks] : PlanProgress(phaseOf, deps)
    \/ OrchestrateTracked
    \/ \E t \in DocTasks, status \in {"completed", "failed"} :
          TrackedWorkerCompletes(t, status)

(***************************************************************************)
(* Part 18: the retry-state keys of the tasks of one phase of one run:     *)
(* handleWorkerSpawnFailure keyed by phaseNumber * 100000 + hashTaskId     *)
(***************************************************************************)

\* @id(...) values of the tasks of phase 1
KeyTasks == {"t1", "t2", "Aa", "BB"}

KeyStepOrders == {TaskStepOrder(1, t) : t \in KeyTasks}

KeyInit ==
    /\ keyRetryStates = [k \in KeyStepOrders |-> NoRetryState]
    /\ keyFailures = [t \in KeyTasks |-> 0]
    /\ keyEscalations = {}

\* handleWorkerSpawnFailure for a failed spawn of task t of phase 1: the
\* failed attempt is recorded under the task's step order; an exhausted
\* state creates an escalation for the task
TaskSpawnFails(t) ==
    LET taskStepOrder == TaskStepOrder(1, t)
        rs == RecordAttempt(keyRetryStates, taskStepOrder, FALSE)
    IN  /\ keyFailures[t] < MaxKeyFailures
        /\ keyFailures' = [keyFailures EXCEPT ![t] = @ + 1]
        /\ keyRetryStates' = rs
        /\ keyEscalations' = IF rs[taskStepOrder].status = "exhausted"
                             THEN keyEscalations \cup {t} ELSE keyEscalations
        /\ UNCHANGED notKey

KeyNext ==
    \E t \in KeyTasks : TaskSpawnFails(t)

(***************************************************************************)
(* Specifications                                                          *)
(***************************************************************************)

vars == <<pipeVars, projVars, ledgerVars, reviewVars, fileVars, collectVars, orderVars, spawnVars, reviewStateVars, mergeVars, retryVars, phaseStatusVars, advanceVars, watchdogVars, phasesVars, faultVars, trackVars, keyVars>>

Init ==
    /\ PipeInit /\ ProjInit /\ LedgerInit /\ ReviewInit /\ FilesInit
    /\ CollectInit
    /\ OrderInit
    /\ SpawnInit
    /\ ReviewStateInit
    /\ MergeInit
    /\ RetryInit
    /\ PhaseStatusInit
    /\ AdvanceInit
    /\ WatchdogInit
    /\ PhasesInit
    /\ LedgerFaultsInit
    /\ TrackInit
    /\ KeyInit

Next ==
    \/ PipeNext \/ ProjNext \/ LedgerNext \/ ReviewNext \/ FilesNext
    \/ CollectNext
    \/ OrderNext
    \/ SpawnNext
    \/ ReviewStateNext
    \/ MergeNext
    \/ RetryNext
    \/ PhaseStatusNext
    \/ AdvanceNext
    \/ WatchdogNext
    \/ PhasesNext
    \/ LedgerFaultsNext
    \/ TrackNext
    \/ KeyNext

Spec == Init /\ [][Next]_vars

\* the pipeline runner alone
SpecPipeline == Init /\ [][PipeNext]_vars

\* the project dispatcher alone
SpecProject == Init /\ [][ProjNext]_vars

\* the work ledger alone
SpecLedger == Init /\ [][LedgerNext]_vars

\* the review of one phase alone
SpecReview == Init /\ [][ReviewNext]_vars

\* the state-file writers alone
SpecFiles == Init /\ [][FilesNext]_vars

\* the phase collector alone
SpecCollect == Init /\ [][CollectNext]_vars

\* the two application orders alone
SpecOrder == Init /\ [][OrderNext]_vars

\* the step-by-step spawn alone
SpecSpawn == Init /\ [][SpawnNext]_vars

\* the review state alone
SpecReviewState == Init /\ [][ReviewStateNext]_vars

\* mergeToMain alone
SpecMerge == Init /\ [][MergeNext]_vars

\* the retry handler alone
SpecRetry == Init /\ [][RetryNext]_vars

\* the phase status handlers alone
SpecPhaseStatus == Init /\ [][PhaseStatusNext]_vars

\* the phase advancement handlers alone
SpecAdvance == Init /\ [][AdvanceNext]_vars

\* the progress watchdog alone
SpecWatchdog == Init /\ [][WatchdogNext]_vars

\* the phase state derivation alone
SpecPhases == Init /\ [][PhasesNext]_vars

\* a ledger operation with a failing append alone
SpecLedgerFaults == Init /\ [][LedgerFaultsNext]_vars

\* the phase tracking alone
SpecTrack == Init /\ [][TrackNext]_vars

\* the retry keys alone
SpecKey == Init /\ [][KeyNext]_vars

(***************************************************************************)
(* Properties                                                              *)
(***************************************************************************)

\* The run as the handlers see it: the activeRuns entry, else the state file.
CurrentRun == IF activeRuns # NoRun THEN activeRuns ELSE runFile

LiveSessions == {s \in 1..Len(spawns) : spawns[s].state = "live"}

\* A delivery step that no session's first report accounts for: the payload
\* was delivered before and is delivered again.
IsDuplicateDelivery ==
    /\ deliveries' = deliveries + 1
    /\ \A s \in 1..Len(spawns) : spawns'[s] = spawns[s]

\* C2: delivering an already delivered worker-complete payload (runId,
\* stepOrder, status) again changes nothing: the run does not advance, no
\* session is spawned and no retry attempt is recorded.
C2_WebhookIdempotent ==
    [][IsDuplicateDelivery =>
          /\ CurrentRun'.currentStepIndex = CurrentRun.currentStepIndex
          /\ spawns' = spawns
          /\ \A o \in StepOrders :
                Len(retryStates'[o].attempts) <= Len(retryStates[o].attempts)]_vars

\* C3: the number of recorded attempts of a retry state never exceeds
\* policy.maxAttempts.
C3_AttemptsWithinPolicy ==
    \A o \in StepOrders : Len(retryStates[o].attempts) <= DefaultMaxAttempts

\* C8: a step's session runs only when the previous step has a completed or
\* skipped result, and the live sessions of a run all belong to one step.
C8_OneStepAtATime ==
    /\ \A s \in LiveSessions, t \in LiveSessions :
          spawns[s].stepOrder = spawns[t].stepOrder
    /\ \A s \in LiveSessions :
          spawns[s].stepOrder > 1 =>
             \E i \in 1..Len(CurrentRun.stepResults) :
                /\ CurrentRun.stepResults[i].stepOrder = spawns[s].stepOrder - 1
                /\ CurrentRun.stepResults[i].status \in {"completed", "skipped"}

\* C10: at most one retry timer is pending per (runId, step).
C10_AtMostOneRetryTimer ==
    \A o \in StepOrders : retryTimers[o] <= 1

\* C1: of the dispatcher invocations that consider a task, one registers it
\* and spawns its worker and the others spawn nothing: a task never has two
\* live workers.
C1_OneWorkerPerTask ==
    \A t \in Tasks : workers[t] <= 1

\* C5: a worker of a phase runs only when every earlier phase has been
\* reviewed and merged.
C5_PhasesSequential ==
    \A t \in Tasks :
        workers[t] > 0 => \A q \in 1..(PhaseOf(t) - 1) : q \in phaseMerged

NonTerminalRuns ==
    {r \in RunIds : projectRuns[r].status \in {"running", "merging", "reviewing"}}

\* C9: the project has at most one run in status running, merging or
\* reviewing.
C9_OneNonTerminalRun ==
    Cardinality(NonTerminalRuns) <= 1

\* C4: replaying the persisted ledger records in order over an empty cache
\* reconstructs the cache exactly.
C4_ReplayReconstructsCache ==
    Replay(ledgerFile) = cache

C7_MergeAfterWholeChain ==
    mainMerges > 0 => chainApprovals = ChainPositions

\* C11: read-modify-write operations on one JSON state file lose no update:
\* the escalation of every finished createEscalation is in escalations.json,
\* and the step order of every finished persistRetryState has a state in
\* the retry state file.
C11_NoLostUpdate ==
    /\ \A w \in Writers : escWriters[w].pc = "done" => w \in escalationsFile
    /\ \A w \in Writers :
          retryWriters[w].pc = "done" => retryStateFile[retryWriters[w].key] # 0

\* C12: once onWorkerComplete has returned phaseComplete = true for the
\* phase, every later call on the phase returns phaseComplete = true.
C12_PhaseCompleteMonotone ==
    phaseCompleteReturned => lastReturn.phaseComplete

BothOrdersApplied ==
    orderA # <<>> /\ orderB # <<>> /\ appliedA = Len(orderA) /\ appliedB = Len(orderB)

OneReportPerWorker ==
    \A i, j \in DOMAIN orderA : orderA[i][1] = orderA[j][1] => i = j

\* C13 as stated: for any fixed set of completion reports of a phase, the
\* final worker statuses and the final result are the same in every order
\* of application.
C13_AnyReportsCommute ==
    BothOrdersApplied => workersA = workersB /\ resultA = resultB

\* C13 amended: for a set of completion reports with at most one report per
\* worker, the final worker statuses and the final result are the same in
\* every order of application.
C13_DistinctWorkersCommute ==
    BothOrdersApplied /\ OneReportPerWorker =>
        workersA = workersB /\ resultA = resultB

\* C13 witness: reports of two workers, one failed, applied in two different
\* orders to the end.
C13_Witness ==
    /\ BothOrdersApplied
    /\ OneReportPerWorker
    /\ Len(orderA) = 2
    /\ orderA # orderB
    /\ \E i \in DOMAIN orderA : orderA[i][2] = "failed"
    /\ resultA.phaseComplete

\* C14: the registry entry of a task is running when the gateway is called
\* for it, and after a failed gateway call has been handled the entry is
\* failed.
C14_RegisteredBeforeGateway ==
    \A t \in Tasks :
        /\ gatewayCalls[t] # "none" => gatewayCalls[t] = "running"
        /\ (spawnSteps[t] = "ready" /\ gatewayAttempts[t] > 0) =>
              spawnRegistry[t] = "failed"

\* C16: a review cycle whose status is escalated or merged keeps that status
\* through every later review start, decision, fix request and fixer
\* completion.
C16_TerminalStatuses ==
    [][reviewState.status \in {"escalated", "merged"} =>
          reviewState'.status = reviewState.status]_vars


\* C15: the fixCount of the fix cycle never exceeds maxFixAttempts, however
\* the review-result and fix-complete calls overlap.
C15_FixCountWithinMax ==
    /\ fixCycle.fixCount <= MaxFixAttempts
    /\ \A i \in 1..Len(fixCalls) : fixCalls[i].cycle.fixCount <= MaxFixAttempts

\* C15 witness: the stored cycle has reached maxFixAttempts while an
\* overlapping handleFixRequest call still holds a copy read before the last
\* attempt was counted.
C15_Witness ==
    /\ fixCycle.fixCount = MaxFixAttempts
    /\ \E i \in 1..Len(fixCalls) :
          /\ fixCalls[i].kind = "fix-request"
          /\ fixCalls[i].cycle.fixCount < MaxFixAttempts

\* C17: a review result request_changes with zero findings from a live
\* reviewer session is answered with needs_clarification and nothing is done
\* automatically: no fixer is spawned, nothing is merged, the phase is not
\* advanced and the result does not count as an approval.
C17_NoFindingsNeedsClarification ==
    [][\A s \in 1..MaxReviewerSessions :
          (/\ s <= Len(reviewerSessions)
           /\ reviewerSessions[s].state = "live"
           /\ reviewerSessions'[s].state = "reported"
           /\ reviewerSessions'[s].status = "request_changes"
           /\ reviewerSessions'[s].findings = 0) =>
             /\ reviewResponse' = "needs_clarification"
             /\ UNCHANGED <<fixerSessions, simpleFixers, fixCalls, fixCycle,
                            mainMerges, phaseAdvances, chainIndex,
                            chainApprovals>>
             /\ Len(reviewerSessions') = Len(reviewerSessions)]_vars

\* C17 witness: a request for changes without findings was answered with
\* needs_clarification.
C17_Witness ==
    /\ reviewResponse = "needs_clarification"
    /\ \E s \in 1..Len(reviewerSessions) :
          /\ reviewerSessions[s].state = "reported"
          /\ reviewerSessions[s].status = "request_changes"
          /\ reviewerSessions[s].findings = 0

\* C18: delivering a review-result payload a second time changes nothing: no
\* further fix request is started (no fixer, no fixCount increment) and the
\* phase is not advanced again.
C18_ReviewResultIdempotent ==
    [][reviewDeliveries' = reviewDeliveries + 1 =>
          UNCHANGED <<fixCalls, fixCycle, fixerSessions, phaseAdvances>>]_vars

\* C20: when the main merge of the approved phase branch conflicts, the phase
\* is marked merge-failed and an escalation exists.
C20_ConflictEscalates ==
    lastMerge = "conflict" =>
        /\ phaseStatus = "merge-failed"
        /\ reviewEscalations > 0

C21_CompletionClosesEscalation ==
    [][\A s \in 1..MaxSpawns :
          (/\ s <= Len(spawns)
           /\ spawns[s].state = "live"
           /\ spawns'[s].state = "completed") =>
             \A e \in 1..Len(escalations) :
                escalations[e].stepOrder = spawns[s].stepOrder =>
                   escalations'[e].status # "open"]_vars

\* C22: the step in which a pipeline step's retries become exhausted creates
\* an escalation of severity high, records the step as skipped with that
\* escalation's id and moves the run past the step; the run is completed when
\* the step was the last one, and when the last step's session reports
\* completed.
C22_ExhaustedStepSkipped ==
    [][/\ \A o \in StepOrders :
            (retryStates[o].status # "exhausted"
                /\ retryStates'[o].status = "exhausted") =>
               /\ Len(escalations') = Len(escalations) + 1
               /\ escalations'[Len(escalations')].severity = "high"
               /\ escalations'[Len(escalations')].stepOrder = o
               /\ \E i \in 1..Len(CurrentRun'.stepResults) :
                     CurrentRun'.stepResults[i] =
                        [stepOrder |-> o, status |-> "skipped",
                         escalationId |-> Len(escalations')]
               /\ CurrentRun'.currentStepIndex >= o
               /\ o = NumSteps => CurrentRun'.status = "completed"
       /\ \A s \in 1..MaxSpawns :
            (/\ s <= Len(spawns)
             /\ spawns[s].state = "live"
             /\ spawns'[s].state = "completed"
             /\ spawns[s].stepOrder = NumSteps
             /\ CurrentRun.status = "running"
             /\ CurrentRun.currentStepIndex = NumSteps - 1) =>
               CurrentRun'.status = "completed"]_vars

\* C22 witness: a step other than the last was skipped with an escalation
\* after DefaultMaxAttempts failed attempts and the run went on to complete.
C22_Witness ==
    /\ runFile.status = "completed"
    /\ Len(escalations) = 1
    /\ escalations[1].stepOrder = 1
    /\ Len(retryStates[1].attempts) = DefaultMaxAttempts
    /\ \E i \in 1..Len(runFile.stepResults) :
          runFile.stepResults[i] =
             [stepOrder |-> 1, status |-> "skipped", escalationId |-> 1]
    /\ \E i \in 1..Len(runFile.stepResults) :
          /\ runFile.stepResults[i].stepOrder = NumSteps
          /\ runFile.stepResults[i].status = "completed"

\* C28: a run whose status is completed or failed is not in the activeRuns
\* map.
C28_TerminalRunsLeaveActiveRuns ==
    activeRuns # NoRun => activeRuns.status \notin {"completed", "failed"}


\* C23: the dispatcher never wakes an agent for a task whose retry state
\* is exhausted, and every task whose retry state is exhausted has an open
\* escalation.
C23_ExhaustedTaskNotSpawned ==
    [][/\ \A h \in Handlers, t \in Tasks :
            (/\ handlers[h].pc = "spawning"
             /\ t \in handlers[h].tasks
             /\ t \notin handlers'[h].tasks
             /\ handlers'[h].pc = "spawning") =>
               taskRetryStates[<<handlers[h].run,
                                 TaskStepOrder(handlers[h].phase, t)>>].status # "exhausted"
       /\ \A r \in RunIds, t \in Tasks :
            taskRetryStates'[<<r, TaskStepOrder(PhaseOf(t), t)>>].status = "exhausted" =>
               \E e \in 1..Len(taskEscalations') :
                  /\ taskEscalations'[e].runId = r
                  /\ taskEscalations'[e].taskId = t
                  /\ taskEscalations'[e].status = "open"]_vars

\* C24: from a fresh retry state with maxAttempts = k, after k consecutive
\* failed attempts the status is exhausted and nextRetryAt is unset; after
\* fewer than k failed attempts the status is retrying and nextRetryAt is set.
C24_ExhaustedAfterMaxAttempts ==
    (/\ policyState.status # "absent"
     /\ policyState.attempts # <<>>
     /\ \A i \in 1..Len(policyState.attempts) : ~policyState.attempts[i]
     /\ Len(policyState.attempts) <= policyState.policy.maxAttempts) =>
        IF Len(policyState.attempts) = policyState.policy.maxAttempts
        THEN policyState.status = "exhausted" /\ policyState.nextRetryAt = Unset
        ELSE policyState.status = "retrying" /\ policyState.nextRetryAt # Unset

C24_Witness ==
    /\ policyState.status = "exhausted"
    /\ policyState.policy.maxAttempts = MaxPolicyAttempts
    /\ Len(policyState.attempts) = MaxPolicyAttempts
    /\ \A i \in 1..Len(policyState.attempts) : ~policyState.attempts[i]
    /\ policyState.nextRetryAt = Unset

\* C25 as stated: the delay scheduled after the i-th failed attempt
\* (1 <= i <= k-1) lies in [0.9*b*m^i, min(maxDelay, 1.1*b*m^i)].
C25_DelayWithinJitterBounds ==
    (/\ policyState.status = "retrying"
     /\ \A i \in 1..Len(policyState.attempts) : ~policyState.attempts[i]) =>
        LET d == policyState.policy.baseDelayMs
                    * Pow(policyState.policy.backoffMultiplier,
                          Len(policyState.attempts))
        IN  /\ 9 * d <= 10 * retryDelayMs
            /\ retryDelayMs <= policyState.policy.maxDelayMs
            /\ 10 * retryDelayMs <= 11 * d

\* C25 amended: the delay scheduled after the i-th failed attempt
\* (1 <= i <= k-1) lies in
\* [min(maxDelay, floor(0.9*b*m^i)), min(maxDelay, 1.1*b*m^i)].
C25_DelayWithinFlooredCappedBounds ==
    (/\ policyState.status = "retrying"
     /\ \A i \in 1..Len(policyState.attempts) : ~policyState.attempts[i]) =>
        LET d == policyState.policy.baseDelayMs
                    * Pow(policyState.policy.backoffMultiplier,
                          Len(policyState.attempts))
            lower == IF (9 * d) \div 10 < policyState.policy.maxDelayMs
                     THEN (9 * d) \div 10 ELSE policyState.policy.maxDelayMs
        IN  /\ lower <= retryDelayMs
            /\ retryDelayMs <= policyState.policy.maxDelayMs
            /\ 10 * retryDelayMs <= 11 * d

C25_Witness ==
    /\ policyState.status = "retrying"
    /\ Len(policyState.attempts) = 2
    /\ \A i \in 1..Len(policyState.attempts) : ~policyState.attempts[i]
    /\ policyState.policy.maxDelayMs = 40
    /\ retryDelayMs = 40

\* C26: the persisted status of a phase only moves forward in the order
\* pending, running, collecting, merging, reviewing, completed, and a failed
\* phase keeps its status.
C26_PhaseStatusMovesForward ==
    [][LET Rank(s) == CASE s = "none" -> 0
                        [] s = "pending" -> 1
                        [] s = "running" -> 2
                        [] s = "collecting" -> 3
                        [] s = "merging" -> 4
                        [] s = "reviewing" -> 5
                        [] s = "completed" -> 6
                        [] OTHER -> 7
       IN  phaseOnDisk'.status # phaseOnDisk.status =>
              /\ phaseOnDisk.status # "failed"
              /\ Rank(phaseOnDisk'.status) > Rank(phaseOnDisk.status)]_vars

\* C27: after completePhase or failPhase has returned for an existing phase,
\* the phase is not in the activePhases map.
C27_TerminalPhaseLeavesMap ==
    lastCollectorCall \in {"completePhase", "failPhase"} => phaseInMap = NoPhase

\* C29: the project's phase moves from spec to build only when
\* specs/IMPLEMENTATION_PLAN.md exists and progress.md has an @id annotation,
\* whichever component makes the move.
C29_SpecToBuildNeedsPlanAndTasks ==
    [][(projState.phase = "spec" /\ projState'.phase = "build") =>
          (projFiles.plan # "none" /\ projFiles.ids)]_vars

C31_WatchdogRetryCapEscalates ==
    [][watchdogRuns' # watchdogRuns =>
          \A t \in WatchdogTasks :
             /\ watchdogRetries'[t] <= 3
             /\ (/\ t \in incompleteTasks
                 /\ \A u \in incompleteTasks : t <= u
                 /\ watchdogRetries[t] >= 3) =>
                   /\ watchdogRetries'[t] = watchdogRetries[t]
                   /\ orchestrateRetries'[t] = orchestrateRetries[t]
                   /\ Len(escalations') = Len(escalations) + 1]_vars


\* C32: initRetryState called for a key that already has an entry leaves the
\* entry's recorded attempts and status unchanged (a step that ends in a
\* freshly initialised entry is a call of initRetryState: recordAttempt
\* leaves at least one attempt, clearRetryState leaves no entry).
C32_InitKeepsExistingEntry ==
    [][(/\ policyState.status # "absent"
        /\ \E policy \in Policies : policyState' = InitRetryState(policy)) =>
          /\ policyState'.attempts = policyState.attempts
          /\ policyState'.status = policyState.status]_vars


\* C33: a task registry entry only moves pending -> running ->
\* {completed, failed, cancelled} (an entry is created as running); an entry
\* that is completed is never set to another status.
C33_RegistryStatusMovesForward ==
    [][\A t \in Tasks :
          \/ registry'[t] = registry[t]
          \/ registry[t] \in {"absent", "pending"} /\ registry'[t] = "running"
          \/ /\ registry[t] \in {"absent", "running"}
             /\ registry'[t] \in {"completed", "failed", "cancelled"}]_vars

\* C34: a derived phase is completed iff all its member tasks are done,
\* running iff it is the earliest incomplete phase and has a ready task, and
\* otherwise in the remaining status (pending in the PhaseInfo type).
C34_PhaseStateDerivation ==
    graphDone # NoGraph =>
        \A p \in DocPhaseNumbers :
            LET allDone(q) == DocPhaseTasks(docPhase, q) \subseteq graphDone
                earliest == ~allDone(p) /\ \A q \in 1..(p - 1) : allDone(q)
                ready == DocPhaseReadyTasks(docPhase, docDepends, graphDone, p)
            IN  phaseInfos[p] =
                    IF allDone(p) THEN "completed"
                    ELSE IF earliest /\ ready # {} THEN "running"
                    ELSE "pending"


\* C35: when the spawn of a task succeeds after exactly one failed spawn of
\* it, the task's retry state then holds two attempts, the failed one and a
\* successful one, with status succeeded, and no escalation is created.
C35_RetrySuccessRecorded ==
    [][\A h \in Handlers, t \in Tasks :
          (/\ handlers[h].pc = "spawning"
           /\ t \in handlers[h].tasks
           /\ handlers'[h].tasks = handlers[h].tasks \ {t}
           /\ workers'[t] = workers[t] + 1
           /\ taskRetryStates[<<handlers[h].run,
                                TaskStepOrder(handlers[h].phase, t)>>].attempts
                 = <<FALSE>>) =>
             /\ taskRetryStates'[<<handlers[h].run,
                                   TaskStepOrder(handlers[h].phase, t)>>]
                   = [attempts |-> <<FALSE, TRUE>>, status |-> "succeeded"]
             /\ taskEscalations' = taskEscalations]_vars


\* C36: a review cycle that went pending, fixing, pending-review with one
\* fix and whose phase is then approved and merged to main ends with status
\* merged and fixCount 1 (the end of the sequence pending, fixing,
\* pending-review, pending, approved, merged).
C36_ApprovedCycleEndsMerged ==
    [][(/\ fixCycle.status = "pending-review"
        /\ fixCycle.fixCount = 1
        /\ mainMerges' = mainMerges + 1) =>
          /\ fixCycle'.status = "merged"
          /\ fixCycle'.fixCount = 1]_vars

\* C37: a ledger write appends its record before it mutates the cached work
\* item: an operation whose append fails leaves every work item that was in
\* the cache as it was, a parent's childIds included.
C37_FailedAppendLeavesCache ==
    [][appendFailures' # appendFailures =>
          \A id \in ItemIds : cache[id] # NoItem => cache'[id] = cache[id]]_vars

\* C38: onWorkerComplete returns phaseComplete only when every task of the
\* phase has a worker in the phase state that has reported, and a task of
\* the phase that is spawned after the phase was initialised is a worker of
\* the phase state.
C38_PhaseCompleteCoversPhaseTasks ==
    [][/\ collectReturn'.phaseComplete =>
             \A t \in DocPhaseTasks(docPhase', collectReturn'.phase) :
                 trackedWorkers'[collectReturn'.phase][t] \in {"completed", "failed"}
       /\ \A t \in liveWorkers' \ liveWorkers :
             trackedWorkers'[docPhase'[t]][t] # "none"]_vars

\* C39: every task of a run has its own retry-state key: the attempts under
\* a task's key are the failed spawns of that task, and a task is treated as
\* exhausted (and escalated) only after its own failures reach the maximum.
C39_RetryKeyPerTask ==
    \A t \in KeyTasks :
        /\ Len(keyRetryStates[TaskStepOrder(1, t)].attempts) = keyFailures[t]
        /\ keyRetryStates[TaskStepOrder(1, t)].status = "exhausted" =>
              keyFailures[t] >= DefaultMaxAttempts
        /\ t \in keyEscalations => keyFailures[t] >= DefaultMaxAttempts


\* C40: a worker-complete webhook whose stepOrder is not the current step of
\* the run (a finished run has no current step) is answered with an error
\* result and changes nothing in the run state: the run and its state file
\* keep their step results, the retry states and timers are as before, no
\* session is spawned and no escalation is created.
C40_StaleDeliveryRejected ==
    [][(/\ deliveries' = deliveries + 1
        /\ CurrentRun # NoRun
        /\ \/ CurrentRun.currentStepIndex >= NumSteps
           \/ StepAt(CurrentRun.currentStepIndex) # stepResponse'.stepOrder) =>
          /\ stepResponse'.result = "error"
          /\ CurrentRun' = CurrentRun
          /\ runFile' = runFile
          /\ retryStates' = retryStates
          /\ retryTimers' = retryTimers
          /\ Len(spawns') = Len(spawns)
          /\ sessionToRun' = sessionToRun
          /\ escalations' = escalations]_vars

====
